---- MODULE Spec2Model ----
(***************************************************************************)
(* The checkout workflow of the storefront backend (POST /cart/checkout)   *)
(* over the relational store.  Every awaited store statement of the        *)
(* handler is one step; the store is PostgreSQL at its default isolation   *)
(* level (READ COMMITTED): a SELECT sees the committed rows and the        *)
(* transaction's own writes, an UPDATE waits for the row lock and then     *)
(* works on the latest row version, COMMIT publishes all writes at once    *)
(* and ROLLBACK discards them.  The store-management routes that touch     *)
(* the same rows (POST /stocks/updateProduct, PATCH                        *)
(* /stocks/orders/:orderId/status, GET /stocks/orders/:orderId, PATCH      *)
(* /stocks/increaseStockById/:id and decreaseStockById/:id) are modelled   *)
(* beside it, and so are PUT /cart/update-items, the payment-method        *)
(* routes of /profile and the refresh-token routes of /auth.               *)
(***************************************************************************)
EXTENDS Integers, Sequences, FiniteSets, TLC

\* ---------------------------------------------------------------- bounds
NumCheckouts == 2
NumProducts == 2
MaxLines == 2
MaxQuantity == 1
InitialStock == 1

Checkouts == 1..NumCheckouts
Products == 1..NumProducts

\* ------------------------------------------------------------ the request
\* req.body of POST /cart/checkout.  basePrice is in cents.
BasePriceOf(p) == 50 * p

Lines == { [productId |-> p, quantity |-> q, basePrice |-> BasePriceOf(p)] :
             p \in Products, q \in 1..MaxQuantity }

ProductLists == UNION { [1..n -> Lines] : n \in 0..MaxLines }

\* typeof paymentMethod: an object with card details, null (also typeof
\* "object"), an identifier (number or string), or absent.
PaymentInputs == {"object", "null", "id", "undefined"}

\* Rows the store holds before any checkout: the users, their addresses and
\* their saved cards.
Users == {"u1"}
Addresses == {"a1"}
SavedPaymentIds == {1}

\* complete = FALSE stands for a body in which products, userId or addressId
\* is missing (falsy).
Requests ==
  [ products : ProductLists, paymentMethod : PaymentInputs,
    userId : Users, addressId : Addresses, complete : {TRUE} ]
  \cup
  [ products : {<< >>}, paymentMethod : {"undefined"},
    userId : Users, addressId : Addresses, complete : {FALSE} ]

NoRequest ==
  [ products |-> << >>, paymentMethod |-> "undefined",
    userId |-> "u1", addressId |-> "a1", complete |-> FALSE ]

\* ------------------------------------------------------------- the state
VARIABLES
  stockQuantity,    \* products.stock_quantity, committed row versions
  paymentMethods,   \* payment_methods, committed rows
  orders,           \* orders, committed rows
  orderItems,       \* order_items, committed rows
  txLocked,         \* per transaction: products whose row it has updated (row locks)
  txStock,          \* per transaction: its uncommitted version of those rows
  txPaymentMethods, \* per transaction: uncommitted payment_methods inserts
  txOrders,         \* per transaction: uncommitted orders inserts
  txOrderItems,     \* per transaction: uncommitted order_items inserts
  txKeyShare,       \* per transaction: products its order items reference (key locks)
  txState,          \* per request: "none", "open", "committed", "rolledback"
  pc,               \* per request: position in the handler
  req,              \* per request: req.body
  idx,              \* per request: position in the current for-of loop
  paymentMethodId,  \* per request: local paymentMethodId
  error,            \* per request: the error thrown inside the try block
  notification,     \* per request: outcome of resend.emails.send
  response,         \* per request: sequence of HTTP statuses written to res
  productRows,      \* products: the identifiers of the rows that exist
  basePrice,        \* products.base_price, in cents
  itemStatus,       \* order_items.status as the status route writes it, per item
  pendingInsert,    \* product inserts that updateProduct started and did not await
  adminPc,          \* the store-management client: position in its current request
  adminReq,         \* its current request
  adminIdx,         \* its position in the itemStatuses loop
  adminOps,         \* the number of requests it has sent
  adminTxStatus,    \* its transaction's uncommitted order status writes
  adminTxItems,     \* its transaction's uncommitted item status writes
  adminNotification, \* outcome of the status e-mail of its current request
  adminResponse,    \* HTTP status written to res for its current request
  adjustPc,         \* per stock-adjustment client: position in its current request
  adjustReq,        \* per stock-adjustment client: route and req.params.id
  newStockQuantity, \* per stock-adjustment client: local newStockQuantity
  adjustResponses,  \* per stock-adjustment client: the responses written, in order
  cartItems,        \* cart_items, committed rows
  cartTxDeleted,    \* the cart client's transaction has deleted the cart's items
  cartTxInserted,   \* the cart client's transaction: uncommitted cart_items inserts
  cartPc,           \* the cart client: position in its current request
  cartReq,          \* its current request
  cartIdx,          \* its position in the items loop
  cartOps,          \* the number of requests it has sent
  cartResponse,     \* HTTP status written to res for its last request
  isDefault,        \* payment_methods.is_default: the paymentIds of the rows where it is true
  profilePc,        \* per profile client: position in its current request
  profileReq,       \* per profile client: its current request
  existingMethods,  \* per profile client: existingMethods.length
  otherMethod,      \* per profile client: otherMethods[0].paymentId
  profileOps,       \* per profile client: the number of requests it has sent
  profileResponse,  \* per profile client: HTTP status written to res for its last request
  refreshToken,     \* users.refresh_token, per user
  now,              \* the clock, in seconds: the iat of the tokens jwt.sign issues
  authPc,           \* per auth client: position in its current request
  authReq,          \* per auth client: its current request
  tokens,           \* per auth client: local tokens.refreshToken
  accessToken,      \* per auth client: it holds an access token
  authOps,          \* per auth client: the number of requests it has sent
  authResponse      \* per auth client: the last response written to res

storeVars == << stockQuantity, paymentMethods, orders, orderItems >>
txVars == << txLocked, txStock, txPaymentMethods, txOrders, txOrderItems, txKeyShare,
            txState >>
localVars == << pc, req, idx, paymentMethodId, error, notification, response >>
catalogVars == << productRows, basePrice >>
adminVars == << itemStatus, pendingInsert, adminPc, adminReq, adminIdx, adminOps,
               adminTxStatus, adminTxItems, adminNotification, adminResponse >>
adjustVars == << adjustPc, adjustReq, newStockQuantity, adjustResponses >>
cartVars == << cartItems, cartTxDeleted, cartTxInserted, cartPc, cartReq, cartIdx,
              cartOps, cartResponse >>
profileVars == << isDefault, profilePc, profileReq, existingMethods, otherMethod,
                 profileOps, profileResponse >>
authVars == << refreshToken, now, authPc, authReq, tokens, accessToken, authOps,
              authResponse >>
routeVars == << adjustVars, cartVars, profileVars, authVars >>
besideAdjustVars == << cartVars, profileVars, authVars >>
besideCartVars == << adjustVars, profileVars, authVars >>
besideProfileVars == << adjustVars, cartVars, authVars >>
besideAuthVars == << adjustVars, cartVars, profileVars >>
managementVars == << catalogVars, adminVars, routeVars >>
vars == << storeVars, txVars, localVars, managementVars >>

\* ------------------------------------------- JavaScript number arithmetic
\* totalPrice, tax and the total are IEEE-754 binary64 numbers.  A natural
\* number of any size is a little-endian sequence of limbs below LimbBase
\* (<< >> is zero); a binary64 value is [m, e] standing for m * 2^e with m of
\* exactly MantissaBits bits, or m = << >> for zero.
LimbBase == 2^15
LimbBits == 15
MantissaBits == 53

LimbAt(a, i) == IF i <= Len(a) THEN a[i] ELSE 0

RECURSIVE Big(_)
Big(n) == IF n = 0 THEN << >> ELSE << n % LimbBase >> \o Big(n \div LimbBase)

RECURSIVE BigTrim(_)
BigTrim(a) ==
  IF a = << >> THEN a
  ELSE IF a[Len(a)] = 0 THEN BigTrim(SubSeq(a, 1, Len(a) - 1)) ELSE a

RECURSIVE BigToInt(_)
BigToInt(a) == IF a = << >> THEN 0 ELSE a[1] + LimbBase * BigToInt(Tail(a))

RECURSIVE AddFrom(_, _, _, _)
AddFrom(a, b, i, carry) ==
  IF i > Len(a) /\ i > Len(b)
  THEN IF carry = 0 THEN << >> ELSE << carry >>
  ELSE LET t == LimbAt(a, i) + LimbAt(b, i) + carry
       IN  << t % LimbBase >> \o AddFrom(a, b, i + 1, t \div LimbBase)

BigAdd(a, b) == AddFrom(a, b, 1, 0)

RECURSIVE MulSmallFrom(_, _, _, _)
MulSmallFrom(a, k, i, carry) ==
  IF i > Len(a)
  THEN IF carry = 0 THEN << >> ELSE << carry >>
  ELSE LET t == a[i] * k + carry
       IN  << t % LimbBase >> \o MulSmallFrom(a, k, i + 1, t \div LimbBase)

\* a * k for 0 <= k < LimbBase
BigMulSmall(a, k) == BigTrim(MulSmallFrom(a, k, 1, 0))

RECURSIVE MulFrom(_, _, _)
MulFrom(a, b, j) ==
  IF j > Len(b) THEN << >>
  ELSE BigAdd(MulSmallFrom(a, b[j], 1, 0), << 0 >> \o MulFrom(a, b, j + 1))

BigMul(a, b) == BigTrim(MulFrom(a, b, 1))

RECURSIVE DivSmallFrom(_, _, _, _)
DivSmallFrom(a, d, i, rem) ==
  IF i = 0 THEN [q |-> << >>, r |-> rem]
  ELSE LET cur == rem * LimbBase + a[i]
           rest == DivSmallFrom(a, d, i - 1, cur % d)
       IN  [q |-> Append(rest.q, cur \div d), r |-> rest.r]

\* quotient and remainder of a by d, 0 < d <= LimbBase
BigDivSmall(a, d) ==
  LET qr == DivSmallFrom(a, d, Len(a), 0) IN [q |-> BigTrim(qr.q), r |-> qr.r]

\* a * 2^s
BigShl(a, s) ==
  IF a = << >> THEN a
  ELSE [i \in 1..(s \div LimbBits) |-> 0] \o BigMulSmall(a, 2^(s % LimbBits))

\* floor(a / 2^s)
BigShr(a, s) ==
  LET k == s \div LimbBits
  IN  IF k >= Len(a) THEN << >>
      ELSE BigDivSmall(SubSeq(a, k + 1, Len(a)), 2^(s % LimbBits)).q

RECURSIVE SmallBitLen(_)
SmallBitLen(n) == IF n = 0 THEN 0 ELSE 1 + SmallBitLen(n \div 2)

BigBitLen(a) ==
  IF a = << >> THEN 0 ELSE LimbBits * (Len(a) - 1) + SmallBitLen(a[Len(a)])

\* bit i of a (bit 0 is the lowest)
BigBit(a, i) == (LimbAt(a, i \div LimbBits + 1) \div 2^(i % LimbBits)) % 2

\* some bit of a below bit t is set
BigLowNonZero(a, t) ==
  \/ \E j \in 1..(t \div LimbBits) : LimbAt(a, j) # 0
  \/ LimbAt(a, t \div LimbBits + 1) % 2^(t % LimbBits) # 0

DZero == [m |-> << >>, e |-> 0]

\* The binary64 nearest to n * 2^e (plus a positive amount below 2^e when
\* sticky), ties to even: the rounding every binary64 operation applies.
Round(n, e, sticky) ==
  LET len == BigBitLen(n)
  IN  IF len = 0 THEN DZero
      ELSE IF len <= MantissaBits
      THEN [m |-> BigShl(n, MantissaBits - len), e |-> e - (MantissaBits - len)]
      ELSE LET s == len - MantissaBits
               q == BigShr(n, s)
               half == BigBit(n, s - 1) = 1
               low == sticky \/ BigLowNonZero(n, s - 1)
               up == half /\ (low \/ BigBit(q, 0) = 1)
               r == IF up THEN BigAdd(q, << 1 >>) ELSE q
           IN  IF BigBitLen(r) > MantissaBits
               THEN [m |-> BigShr(r, 1), e |-> e + s + 1]
               ELSE [m |-> r, e |-> e + s]

\* The binary64 nearest to num / den (num a natural, 0 < den < LimbBase).
GuardBits == 5 * LimbBits
FromRatio(num, den) ==
  LET qr == BigDivSmall(BigShl(num, GuardBits), den)
  IN  Round(qr.q, 0 - GuardBits, qr.r # 0)

\* Number(product.basePrice): the price, a decimal with two fraction digits
\* given here in cents, read as a binary64.
ToNumber(cents) == FromRatio(Big(cents), 100)

\* x * k for an integer k (product.quantity)
DMulInt(x, k) == Round(BigMulSmall(x.m, k), x.e, FALSE)

DMul(x, y) == Round(BigMul(x.m, y.m), x.e + y.e, FALSE)

DAdd(x, y) ==
  IF x.m = << >> THEN y
  ELSE IF y.m = << >> THEN x
  ELSE LET e == IF x.e < y.e THEN x.e ELSE y.e
       IN  Round(BigAdd(BigShl(x.m, x.e - e), BigShl(y.m, y.e - e)), e, FALSE)

\* The literal 0.13
TaxRate == FromRatio(Big(13), 100)

\* A binary64 stored into a decimal(10,2) column, in cents.  The driver sends
\* the number as its shortest decimal text that reads back as the same
\* binary64, and the store rounds that text to two fraction digits, half away
\* from zero.  With k = floor(100 x): the text is at or above the tie
\* (2k+1)/200 exactly when x is, or when the tie itself reads back as x.
ToDecimal2(x) ==
  IF x.m = << >> THEN 0
  ELSE LET n == BigMulSmall(x.m, 100)
           s == 0 - x.e
           k == BigShr(n, s)
           tie == BigAdd(BigMulSmall(k, 2), << 1 >>)
       IN  IF BigBit(n, s - 1) = 1 \/ FromRatio(tie, 200) = x
           THEN BigToInt(k) + 1
           ELSE BigToInt(k)

RECURSIVE BigLessFrom(_, _, _)
BigLessFrom(a, b, i) ==
  IF i = 0 THEN FALSE
  ELSE IF a[i] # b[i] THEN a[i] < b[i]
  ELSE BigLessFrom(a, b, i - 1)

\* a < b, for a and b without leading zero limbs
BigLess(a, b) ==
  IF Len(a) # Len(b) THEN Len(a) < Len(b) ELSE BigLessFrom(a, b, Len(a))

RECURSIVE SubFrom(_, _, _, _)
SubFrom(a, b, i, borrow) ==
  IF i > Len(a) THEN << >>
  ELSE LET t == a[i] - LimbAt(b, i) - borrow
       IN  IF t < 0
           THEN << t + LimbBase >> \o SubFrom(a, b, i + 1, 1)
           ELSE << t >> \o SubFrom(a, b, i + 1, 0)

\* a - b for a >= b
BigSub(a, b) == BigTrim(SubFrom(a, b, 1, 0))

\* A number with its sign: neg says it is below zero, abs is its magnitude.
SNum(x, neg) == [neg |-> neg /\ x.m # << >>, abs |-> x]

\* x * k for any integer k (product.quantity is not validated)
SMulInt(x, k) == SNum(DMulInt(x, IF k < 0 THEN 0 - k ELSE k), k < 0)

\* a + b: magnitudes add when the signs agree, otherwise the exact difference
\* is rounded.
SAdd(a, b) ==
  IF a.neg = b.neg THEN SNum(DAdd(a.abs, b.abs), a.neg)
  ELSE LET e == IF a.abs.e < b.abs.e THEN a.abs.e ELSE b.abs.e
           x == BigShl(a.abs.m, a.abs.e - e)
           y == BigShl(b.abs.m, b.abs.e - e)
       IN  IF BigLess(x, y)
           THEN SNum(Round(BigSub(y, x), e, FALSE), b.neg)
           ELSE SNum(Round(BigSub(x, y), e, FALSE), a.neg)

\* A number stored into a decimal(10,2) column, in cents.
SToDecimal2(a) == IF a.neg THEN 0 - ToDecimal2(a.abs) ELSE ToDecimal2(a.abs)

\* Number(product.basePrice) * product.quantity
LineAmount(product) == SMulInt(ToNumber(product.basePrice), product.quantity)

\* order_items.subtotal of a line, in cents.
Subtotal(product) == SToDecimal2(LineAmount(product))

RECURSIVE TotalPrice(_, _)
\* totalPrice after the first n iterations of the first loop.
TotalPrice(products, n) ==
  IF n = 0 THEN SNum(DZero, FALSE)
  ELSE SAdd(TotalPrice(products, n - 1), LineAmount(products[n]))

\* Mutant of TotalAmount: the total without the tax.
TotalAmountUntaxed(products) ==
  SToDecimal2(TotalPrice(products, Len(products)))

\* Number(totalPrice + tax) as stored in orders.total_amount, in cents.
TotalAmount(products) ==
  LET totalPrice == TotalPrice(products, Len(products))
      tax == SNum(DMul(totalPrice.abs, TaxRate), totalPrice.neg)
  IN  SToDecimal2(SAdd(totalPrice, tax))

\* generator.nextId(): identifiers are unique; the k-th identifier drawn by
\* request c.
IdStride == MaxLines + 3
NextId(c, k) == c * IdStride + k

NoError == [kind |-> "none", productId |-> 0]

\* ------------------------------------------------ store management
\* The requests of the store-management client: POST /stocks/updateProduct
\* and PATCH /stocks/orders/:orderId/status.
MaxAdminOps == 2
MaxItemStatuses == 1

validOrderStatuses == {"pending", "processing", "shipped", "delivered", "cancelled"}
validItemStatuses == validOrderStatuses \cup {"returned"}

\* req.body.status: absent (""), a member of the enumeration, a value
\* outside it.
StatusInputs == {"", "shipped", "refunded"}
\* A value of itemStatuses: valid for an item only, or invalid.
ItemStatusInputs == {"returned", "refunded"}

OrderIds == { NextId(c, 2) : c \in Checkouts }
ItemIds == { NextId(c, 2 + i) : c \in Checkouts, i \in 1..MaxLines }
\* The keys a request names in itemStatuses: the first item of the first
\* checkout's order.
NamedItemIds == { NextId(1, 3) }

ItemStatusLists ==
  UNION { [1..n -> [orderItemId : NamedItemIds, status : ItemStatusInputs]] :
            n \in 0..MaxItemStatuses }

NewPrices == {75}

\* complete = FALSE stands for a body in which a required field or pics is
\* missing.
UpdateProductRequests ==
  [ route : {"updateProduct"}, id : Products, base_price : NewPrices,
    stock_quantity : {InitialStock}, complete : BOOLEAN ]

PatchStatusRequests ==
  [ route : {"patchStatus"}, orderId : OrderIds, status : StatusInputs,
    itemStatuses : ItemStatusLists ]

NoAdminRequest == [ route |-> "none" ]

\* ------------------------------------------------ stock adjustment
\* The clients of PATCH /stocks/increaseStockById/:id and PATCH
\* /stocks/decreaseStockById/:id; each sends its next request once the
\* previous one is answered.
NumAdjusters == 2
MaxAdjustOps == 2
Adjusters == 1..NumAdjusters
\* The product the adjustments name.
AdjustedProducts == {1}
NoAdjustRequest == [ route |-> "none", id |-> 0 ]

InitAdjust ==
  /\ adjustPc = [a \in Adjusters |-> "idle"]
  /\ adjustReq = [a \in Adjusters |-> NoAdjustRequest]
  /\ newStockQuantity = [a \in Adjusters |-> 0]
  /\ adjustResponses = [a \in Adjusters |-> << >>]

\* ------------------------------------------------------ the cart
\* The client of PUT /cart/update-items; it sends its next request once the
\* previous one is answered.
MaxCartOps == 2
MaxCartItems == 2
Carts == {"k1"}
UnknownCarts == {"k9"}

\* An item of req.body.items: two valid items, one whose quantity is falsy,
\* one whose productId names no product.
CartItemInputs ==
  { [productId |-> 1, quantity |-> 1, unitPrice |-> BasePriceOf(1)],
    [productId |-> 2, quantity |-> 1, unitPrice |-> BasePriceOf(2)],
    [productId |-> 1, quantity |-> 0, unitPrice |-> BasePriceOf(1)],
    [productId |-> NumProducts + 1, quantity |-> 1,
     unitPrice |-> BasePriceOf(NumProducts + 1)] }

\* complete = FALSE stands for a body in which cartId is missing or items is
\* not an array.
CartRequests ==
  [ cartId : Carts \cup UnknownCarts,
    items : UNION { [1..n -> CartItemInputs] : n \in 0..MaxCartItems },
    complete : {TRUE} ]
  \cup
  [ cartId : Carts, items : {<< >>}, complete : {FALSE} ]

NoCartRequest == [ cartId |-> "k1", items |-> << >>, complete |-> FALSE ]

InitCart ==
  /\ cartItems = {}
  /\ cartTxDeleted = FALSE
  /\ cartTxInserted = {}
  /\ cartPc = "idle"
  /\ cartReq = NoCartRequest
  /\ cartIdx = 0
  /\ cartOps = 0
  /\ cartResponse = 0

\* ------------------------------------------- the payment methods
\* The authenticated clients of POST /profile/payment-methods and DELETE
\* /profile/payment-methods/:paymentId; each sends its next request once the
\* previous one is answered.  All are logged in as the same user.
NumProfileClients == 2
MaxProfileOps == 2
ProfileClients == 1..NumProfileClients
MAX_PAYMENT_METHODS_PER_USER == 3

\* req.body of the POST: isDefault is true, false or absent; valid = FALSE
\* stands for a body that paymentMethodSchema rejects.
AddMethodRequests ==
  [ route : {"addPaymentMethod"}, isDefault : {"true", "false", "undefined"},
    valid : BOOLEAN, paymentId : {0} ]

NoProfileRequest ==
  [ route |-> "none", isDefault |-> "undefined", valid |-> FALSE, paymentId |-> 0 ]

\* The identifier the n-th request of client k draws.
ProfilePaymentId(k, n) == NextId(NumCheckouts + k, n)

InitProfile ==
  /\ isDefault = SavedPaymentIds
  /\ profilePc = [k \in ProfileClients |-> "idle"]
  /\ profileReq = [k \in ProfileClients |-> NoProfileRequest]
  /\ existingMethods = [k \in ProfileClients |-> 0]
  /\ otherMethod = [k \in ProfileClients |-> 0]
  /\ profileOps = [k \in ProfileClients |-> 0]
  /\ profileResponse = [k \in ProfileClients |-> 0]

\* ------------------------------------------------ authentication
\* The clients of POST /auth/login, POST /auth/refresh and POST /auth/logout,
\* all acting for the same registered user.
NumAuthClients == 2
MaxAuthOps == 2
MaxClock == 2
AuthClients == 1..NumAuthClients

\* jwt.sign(payload, JWT_REFRESH_SECRET, {expiresIn}): the token is a function
\* of the payload and of the second it is issued in.
RefreshTokenOf(u, t) == [userId |-> u, iat |-> t]
\* refresh_token is NULL; also a body without a refreshToken string.
NoToken == [userId |-> "none", iat |-> 0]
\* A string that is no token the service has issued.
ForgedToken == [userId |-> "forged", iat |-> 0]

PresentedTokens ==
  { RefreshTokenOf(u, t) : u \in Users, t \in 0..MaxClock } \cup {NoToken, ForgedToken}

NoAuthRequest == [ route |-> "none", refreshToken |-> NoToken ]
NoAuthResponse == [ route |-> "none", code |-> 0, presented |-> NoToken, issued |-> NoToken ]

InitAuth ==
  /\ refreshToken = [u \in Users |-> NoToken]
  /\ now = 0
  /\ authPc = [k \in AuthClients |-> "idle"]
  /\ authReq = [k \in AuthClients |-> NoAuthRequest]
  /\ tokens = [k \in AuthClients |-> NoToken]
  /\ accessToken = [k \in AuthClients |-> FALSE]
  /\ authOps = [k \in AuthClients |-> 0]
  /\ authResponse = [k \in AuthClients |-> NoAuthResponse]

InitRoutes == InitAdjust /\ InitCart /\ InitProfile /\ InitAuth

InitManagement ==
  /\ InitRoutes
  /\ txKeyShare = [c \in Checkouts |-> {}]
  /\ productRows = Products
  /\ basePrice = [p \in Products |-> BasePriceOf(p)]
  /\ itemStatus = [i \in ItemIds |-> "unset"]
  /\ pendingInsert = {}
  /\ adminPc = "idle"
  /\ adminReq = NoAdminRequest
  /\ adminIdx = 0
  /\ adminOps = 0
  /\ adminTxStatus = {}
  /\ adminTxItems = {}
  /\ adminNotification = "none"
  /\ adminResponse = 0

\* ------------------------------------------------------------------ Init
Init ==
  /\ stockQuantity = [p \in Products |-> InitialStock]
  /\ paymentMethods = { [paymentId |-> i, userId |-> "u1"] : i \in SavedPaymentIds }
  /\ orders = {}
  /\ orderItems = {}
  /\ txLocked = [c \in Checkouts |-> {}]
  /\ txStock = [c \in Checkouts |-> [p \in Products |-> 0]]
  /\ txPaymentMethods = [c \in Checkouts |-> {}]
  /\ txOrders = [c \in Checkouts |-> {}]
  /\ txOrderItems = [c \in Checkouts |-> {}]
  /\ txState = [c \in Checkouts |-> "none"]
  /\ pc = [c \in Checkouts |-> "idle"]
  /\ req = [c \in Checkouts |-> NoRequest]
  /\ idx = [c \in Checkouts |-> 0]
  /\ paymentMethodId = [c \in Checkouts |-> 0]
  /\ error = [c \in Checkouts |-> NoError]
  /\ notification = [c \in Checkouts |-> "none"]
  /\ response = [c \in Checkouts |-> << >>]
  /\ InitManagement

\* -------------------------------------------------- the store's statements
\* What a SELECT inside transaction c returns for product p.
VisibleStock(c, p) ==
  IF p \in txLocked[c] THEN txStock[c][p] ELSE stockQuantity[p]

\* Mutant of RowLockFree: an UPDATE that does not wait for the row lock.
NoRowLock(c, p) == TRUE

\* An UPDATE of a row waits while another open transaction holds its lock.
RowLockFree(c, p) == \A d \in Checkouts \ {c} : p \notin txLocked[d]

\* Mutant of TrxUpdateStock: the decrement issued on db instead of trx, so
\* that it is committed on its own.
DbUpdateStock(c, p, q) ==
  /\ stockQuantity' = [stockQuantity EXCEPT ![p] = @ - q]
  /\ UNCHANGED << txStock, txLocked >>

\* trx.update(pp).set({stockQuantity: sql`stock_quantity - q`}).where(id = p)
\* An UPDATE whose WHERE matches no row changes nothing and waits for nothing.
TrxUpdateStock(c, p, q) ==
  IF p \in productRows
  THEN /\ RowLockFree(c, p)
       /\ txStock' = [txStock EXCEPT ![c][p] = VisibleStock(c, p) - q]
       /\ txLocked' = [txLocked EXCEPT ![c] = @ \cup {p}]
       /\ UNCHANGED stockQuantity
  ELSE UNCHANGED << txStock, txLocked, stockQuantity >>

\* Mutant of TrxInsertPayment: the insert issued on db instead of trx.
DbInsertPayment(c, row) ==
  /\ paymentMethods' = paymentMethods \cup {row}
  /\ UNCHANGED txPaymentMethods

\* trx.insert(paymentMethods).values(row)
TrxInsertPayment(c, row) ==
  /\ txPaymentMethods' = [txPaymentMethods EXCEPT ![c] = @ \cup {row}]
  /\ UNCHANGED paymentMethods

\* COMMIT: every write of the transaction becomes visible at once.
CommitWrites(c) ==
  /\ stockQuantity' = [p \in Products |->
        IF p \in txLocked[c] THEN txStock[c][p] ELSE stockQuantity[p]]
  /\ paymentMethods' = paymentMethods \cup txPaymentMethods[c]
  /\ orders' = orders \cup txOrders[c]
  /\ orderItems' = orderItems \cup txOrderItems[c]

\* End of a transaction: its locks are released and its private rows dropped.
ReleaseTx(c) ==
  /\ txLocked' = [txLocked EXCEPT ![c] = {}]
  /\ txStock' = [txStock EXCEPT ![c] = [p \in Products |-> 0]]
  /\ txPaymentMethods' = [txPaymentMethods EXCEPT ![c] = {}]
  /\ txOrders' = [txOrders EXCEPT ![c] = {}]
  /\ txOrderItems' = [txOrderItems EXCEPT ![c] = {}]
  /\ txKeyShare' = [txKeyShare EXCEPT ![c] = {}]

\* ----------------------------------------------- POST /cart/checkout
Goto(c, label) == pc' = [pc EXCEPT ![c] = label]

\* throw inside the transaction callback: the transaction will be rolled back.
Throw(c, kind, productId) ==
  /\ error' = [error EXCEPT ![c] = [kind |-> kind, productId |-> productId]]
  /\ Goto(c, "rollback")

\* The statement after the payment method is resolved: the stock-check loop,
\* or the order insert when the loops have nothing to iterate.
AfterPayment(c) ==
  IF Len(req[c].products) > 0
  THEN Goto(c, "checkStock") /\ idx' = [idx EXCEPT ![c] = 1]
  ELSE Goto(c, "insertOrder") /\ idx' = [idx EXCEPT ![c] = 0]

\* Mutant of Checkout: the handler without its check of the required fields.
CheckoutUnvalidated(c, r) ==
  /\ pc[c] = "idle"
  /\ req' = [req EXCEPT ![c] = r]
  /\ Goto(c, "begin")
  /\ UNCHANGED << storeVars, txVars, idx, paymentMethodId, error, notification,
                  response, managementVars >>

\* The request arrives; a body missing products, userId or addressId is
\* answered 400, otherwise db.transaction is entered.
Checkout(c, r) ==
  /\ pc[c] = "idle"
  /\ req' = [req EXCEPT ![c] = r]
  /\ IF ~r.complete
     THEN /\ response' = [response EXCEPT ![c] = Append(@, 400)]
          /\ Goto(c, "done")
     ELSE /\ Goto(c, "begin")
          /\ UNCHANGED response
  /\ UNCHANGED << storeVars, txVars, idx, paymentMethodId, error, notification,
                  managementVars >>

\* BEGIN, then the callback up to its first awaited statement: the totals and
\* the typeof paymentMethod branch.
BeginTransaction(c) ==
  /\ pc[c] = "begin"
  /\ txState' = [txState EXCEPT ![c] = "open"]
  /\ CASE req[c].paymentMethod = "object" ->
            /\ Goto(c, "insertPayment")
            /\ UNCHANGED << idx, paymentMethodId, error >>
       [] req[c].paymentMethod = "null" ->
            \* typeof null is "object": paymentMethod.cardType throws
            /\ Throw(c, "type_error", 0)
            /\ UNCHANGED << idx, paymentMethodId >>
       [] OTHER ->
            /\ paymentMethodId' = [paymentMethodId EXCEPT ![c] = 0]
            /\ AfterPayment(c)
            /\ UNCHANGED error
  /\ UNCHANGED << storeVars, txLocked, txStock, txPaymentMethods, txOrders,
                  txOrderItems, txKeyShare, req, notification, response,
                  managementVars >>

\* The inline card is inserted under a fresh identifier.  payment_methods
\* references users: the insert of a row for a user that does not exist fails.
InsertPaymentMethod(c) ==
  /\ pc[c] = "insertPayment"
  /\ IF req[c].userId \in Users
     THEN LET newPaymentId == NextId(c, 1)
          IN  /\ TrxInsertPayment(c, [paymentId |-> newPaymentId,
                                      userId |-> req[c].userId])
              /\ paymentMethodId' = [paymentMethodId EXCEPT ![c] = newPaymentId]
              /\ AfterPayment(c)
              /\ UNCHANGED error
     ELSE /\ Throw(c, "store", 0)
          /\ UNCHANGED << paymentMethods, txPaymentMethods, paymentMethodId, idx >>
  /\ UNCHANGED << stockQuantity, orders, orderItems, txLocked, txStock, txOrders,
                  txOrderItems, txKeyShare, txState, req, notification, response,
                  managementVars >>

\* Mutant of CheckStock: the loop reports the product of the last line of
\* the request instead of the line it found insufficient.
CheckStockReportsLastLine(c) ==
  /\ pc[c] = "checkStock"
  /\ LET product == req[c].products[idx[c]]
         currentStock == VisibleStock(c, product.productId)
     IN  IF currentStock < product.quantity
         THEN /\ Throw(c, "insufficient_stock",
                       req[c].products[Len(req[c].products)].productId)
              /\ UNCHANGED idx
         ELSE /\ UNCHANGED error
              /\ IF idx[c] < Len(req[c].products)
                 THEN idx' = [idx EXCEPT ![c] = @ + 1] /\ UNCHANGED pc
                 ELSE idx' = [idx EXCEPT ![c] = 1] /\ Goto(c, "updateStock")
  /\ UNCHANGED << storeVars, txVars, req, paymentMethodId, notification, response,
                  managementVars >>

\* One iteration of the first loop: read the stock of the line's product and
\* throw when it is below the requested quantity.  When the SELECT returns no
\* row, currentStock[0].stockQuantity throws a TypeError.
CheckStock(c) ==
  /\ pc[c] = "checkStock"
  /\ LET product == req[c].products[idx[c]]
         currentStock == VisibleStock(c, product.productId)
     IN  IF product.productId \notin productRows
         THEN /\ Throw(c, "type_error", 0)
              /\ UNCHANGED idx
         ELSE IF currentStock < product.quantity
         THEN /\ Throw(c, "insufficient_stock", product.productId)
              /\ UNCHANGED idx
         ELSE /\ UNCHANGED error
              /\ IF idx[c] < Len(req[c].products)
                 THEN idx' = [idx EXCEPT ![c] = @ + 1] /\ UNCHANGED pc
                 ELSE idx' = [idx EXCEPT ![c] = 1] /\ Goto(c, "updateStock")
  /\ UNCHANGED << storeVars, txVars, req, paymentMethodId, notification, response,
                  managementVars >>

\* One iteration of the second loop: decrement the stock of the line's product.
UpdateStock(c) ==
  /\ pc[c] = "updateStock"
  /\ LET p == req[c].products[idx[c]]
     IN  TrxUpdateStock(c, p.productId, p.quantity)
  /\ IF idx[c] < Len(req[c].products)
     THEN idx' = [idx EXCEPT ![c] = @ + 1] /\ UNCHANGED pc
     ELSE idx' = [idx EXCEPT ![c] = 0] /\ Goto(c, "insertOrder")
  /\ UNCHANGED << paymentMethods, orders, orderItems, txPaymentMethods, txOrders,
                  txOrderItems, txKeyShare, txState, req, paymentMethodId, error,
                  notification, response, managementVars >>

\* The order row, status pending, total = totalPrice + tax.  The orders table
\* declares no foreign key (its references are commented out in the schema),
\* so the insert accepts any userId, address and paymentMethodId.
InsertOrder(c) ==
  /\ pc[c] = "insertOrder"
  /\ txOrders' = [txOrders EXCEPT ![c] = @ \cup
        { [ orderId |-> NextId(c, 2),
            userId |-> req[c].userId,
            shippingAddressId |-> req[c].addressId,
            billingAddressId |-> req[c].addressId,
            totalAmount |-> TotalAmount(req[c].products),
            paymentMethodId |-> paymentMethodId[c],
            status |-> "pending" ] }]
  /\ IF Len(req[c].products) > 0
     THEN idx' = [idx EXCEPT ![c] = 1] /\ Goto(c, "insertItems")
     ELSE UNCHANGED idx /\ Goto(c, "send")
  /\ UNCHANGED << storeVars, txLocked, txStock, txPaymentMethods, txOrderItems,
                  txKeyShare, txState, req, paymentMethodId, error, notification,
                  response, managementVars >>

\* One iteration of the third loop: the order item of the line.  order_items
\* references products: the insert fails when the product row does not exist,
\* and otherwise holds a key lock on that row until the transaction ends.
InsertOrderItem(c) ==
  /\ pc[c] = "insertItems"
  /\ LET product == req[c].products[idx[c]]
     IN  IF product.productId \in productRows
         THEN /\ txOrderItems' = [txOrderItems EXCEPT ![c] = @ \cup
                   { [ orderItemId |-> NextId(c, 2 + idx[c]),
                       orderId |-> NextId(c, 2),
                       productId |-> product.productId,
                       quantity |-> product.quantity,
                       unitPrice |-> product.basePrice,
                       subtotal |-> Subtotal(product) ] }]
              /\ txKeyShare' = [txKeyShare EXCEPT ![c] = @ \cup {product.productId}]
              /\ IF idx[c] < Len(req[c].products)
                 THEN idx' = [idx EXCEPT ![c] = @ + 1] /\ UNCHANGED pc
                 ELSE idx' = [idx EXCEPT ![c] = 0] /\ Goto(c, "send")
              /\ UNCHANGED error
         ELSE /\ Throw(c, "store", 0)
              /\ UNCHANGED << txOrderItems, txKeyShare, idx >>
  /\ UNCHANGED << storeVars, txLocked, txStock, txPaymentMethods, txOrders,
                  txState, req, paymentMethodId, notification, response,
                  managementVars >>

\* What awaiting resend.emails.send can do: resolve with data, resolve with an
\* error, or reject.
SendOutcomes == {"sent", "error", "throws"}

\* The confirmation e-mail, awaited inside the transaction callback; when the
\* await resolves, 201 is written and the callback returns.
SendEmail(c, outcome) ==
  /\ pc[c] = "send"
  /\ notification' = [notification EXCEPT ![c] = outcome]
  /\ IF outcome = "throws"
     THEN /\ Throw(c, "notification", 0)
          /\ UNCHANGED response
     ELSE /\ response' = [response EXCEPT ![c] = Append(@, 201)]
          /\ Goto(c, "commit")
          /\ UNCHANGED error
  /\ UNCHANGED << storeVars, txVars, req, idx, paymentMethodId, managementVars >>

\* COMMIT succeeds.
Commit(c) ==
  /\ pc[c] = "commit"
  /\ CommitWrites(c)
  /\ ReleaseTx(c)
  /\ txState' = [txState EXCEPT ![c] = "committed"]
  /\ Goto(c, "done")
  /\ UNCHANGED << req, idx, paymentMethodId, error, notification, response,
                  managementVars >>

\* A statement of the transaction (BEGIN and COMMIT included) fails in the
\* store: constraint, deadlock victim, lost connection.
StoreError(c) ==
  /\ pc[c] \in {"begin", "insertPayment", "checkStock", "updateStock", "insertOrder",
               "insertItems", "commit"}
  /\ Throw(c, "store", 0)
  /\ UNCHANGED << storeVars, txVars, req, idx, paymentMethodId, notification, response,
                  managementVars >>

\* Mutant of Rollback: the failed transaction is ended with COMMIT.
CommitOnError(c) ==
  /\ pc[c] = "rollback"
  /\ CommitWrites(c)
  /\ ReleaseTx(c)
  /\ txState' = [txState EXCEPT ![c] = "rolledback"]
  /\ response' = [response EXCEPT ![c] = IF @ = << >> THEN << 500 >> ELSE @]
  /\ Goto(c, "done")
  /\ UNCHANGED << req, idx, paymentMethodId, error, notification, managementVars >>

\* ROLLBACK, then the handler's catch block: 500 unless the response has
\* already been written (a second write throws and sends nothing).
Rollback(c) ==
  /\ pc[c] = "rollback"
  /\ ReleaseTx(c)
  /\ txState' = [txState EXCEPT ![c] = "rolledback"]
  /\ response' = [response EXCEPT ![c] = IF @ = << >> THEN << 500 >> ELSE @]
  /\ Goto(c, "done")
  /\ UNCHANGED << storeVars, req, idx, paymentMethodId, error, notification,
                  managementVars >>

\* ----------------------------------------- POST /stocks/updateProduct
\* The client's next request may be sent once the previous one is answered.
AdminIdle == adminPc = "idle" /\ adminOps < MaxAdminOps

AdminReceives(r) ==
  /\ adminReq' = r
  /\ adminOps' = adminOps + 1
  /\ adminIdx' = 0
  /\ adminNotification' = "none"
  /\ adminResponse' = 0

\* The response is written and the handler returns: the request is over.
AdminResponds(code) ==
  /\ adminResponse' = code
  /\ adminReq' = NoAdminRequest
  /\ adminIdx' = 0
  /\ adminPc' = "idle"

\* A row of order_items references product p.
ProductReferenced(p) ==
  \/ \E it \in orderItems : it.productId = p
  \/ \E it \in cartItems : it.productId = p

\* A DELETE of a product row waits while an open transaction holds a lock on it.
ProductLockFree(p) == \A c \in Checkouts : p \notin txLocked[c] \cup txKeyShare[c]

\* Mutant of DbDeleteProduct: the order_items reference declared with
\* onDelete cascade.
DbDeleteProductCascade(p) ==
  /\ productRows' = productRows \ {p}
  /\ basePrice' = [basePrice EXCEPT ![p] = 0]
  /\ stockQuantity' = [stockQuantity EXCEPT ![p] = 0]
  /\ orderItems' = { it \in orderItems : it.productId # p }

\* db.delete(products).where(productId = p): it fails while order_items rows
\* reference the product (the reference declares no onDelete action).
DbDeleteProduct(p) ==
  IF ProductReferenced(p)
  THEN UNCHANGED << productRows, basePrice, stockQuantity, orderItems >>
  ELSE /\ productRows' = productRows \ {p}
       /\ basePrice' = [basePrice EXCEPT ![p] = 0]
       /\ stockQuantity' = [stockQuantity EXCEPT ![p] = 0]
       /\ UNCHANGED orderItems

\* The request arrives.
UpdateProduct(r) ==
  /\ AdminIdle
  /\ AdminReceives(r)
  /\ adminPc' = "validateProduct"
  /\ UNCHANGED << storeVars, txVars, localVars, routeVars, catalogVars, itemStatus, pendingInsert,
                  adminTxStatus, adminTxItems >>

\* A body missing a required field or pics is answered 404.
ValidateProduct ==
  /\ adminPc = "validateProduct"
  /\ IF adminReq.complete
     THEN /\ adminPc' = "deleteProduct"
          /\ UNCHANGED << adminReq, adminIdx, adminResponse >>
     ELSE AdminResponds(404)
  /\ UNCHANGED << storeVars, txVars, localVars, routeVars, catalogVars, itemStatus, pendingInsert,
                  adminOps, adminTxStatus, adminTxItems, adminNotification >>

\* deleteProduct(id) (the pictures it removes first are outside the model),
\* then the callback that starts the insert of the new row without awaiting
\* it, then 201; 500 when the delete fails.
DeleteProduct ==
  /\ adminPc = "deleteProduct"
  /\ ProductLockFree(adminReq.id)
  /\ DbDeleteProduct(adminReq.id)
  /\ IF ProductReferenced(adminReq.id)
     THEN /\ AdminResponds(500)
          /\ UNCHANGED pendingInsert
     ELSE /\ AdminResponds(201)
          /\ pendingInsert' = pendingInsert \cup
               { [ productId |-> adminReq.id, basePrice |-> adminReq.base_price,
                   stockQuantity |-> adminReq.stock_quantity ] }
  /\ UNCHANGED << paymentMethods, orders, txVars, localVars, routeVars, itemStatus, adminOps,
                  adminTxStatus, adminTxItems, adminNotification >>

\* db.insert(products).values(product), running after the response; it fails
\* when a row with the identifier exists.
InsertProduct(row) ==
  /\ row \in pendingInsert
  /\ pendingInsert' = pendingInsert \ {row}
  /\ IF row.productId \in productRows
     THEN UNCHANGED << catalogVars, stockQuantity >>
     ELSE /\ productRows' = productRows \cup {row.productId}
          /\ basePrice' = [basePrice EXCEPT ![row.productId] = row.basePrice]
          /\ stockQuantity' = [stockQuantity EXCEPT ![row.productId] = row.stockQuantity]
  /\ UNCHANGED << paymentMethods, orders, orderItems, txVars, localVars, routeVars, itemStatus,
                  adminPc, adminReq, adminIdx, adminOps, adminTxStatus, adminTxItems,
                  adminNotification, adminResponse >>

\* ------------------------------- PATCH /stocks/orders/:orderId/status
\* Mutant of ValidOrderStatus: no check of the status against the enumeration.
AnyOrderStatus(status) == TRUE

ValidOrderStatus(status) == status \in validOrderStatuses

\* The request arrives.
PatchOrderStatus(r) ==
  /\ AdminIdle
  /\ AdminReceives(r)
  /\ adminPc' = "validateStatus"
  /\ UNCHANGED << storeVars, txVars, localVars, routeVars, catalogVars, itemStatus, pendingInsert,
                  adminTxStatus, adminTxItems >>

\* A status that is given and is outside the enumeration is answered 400.
ValidateStatus ==
  /\ adminPc = "validateStatus"
  /\ IF adminReq.status # "" /\ ~ValidOrderStatus(adminReq.status)
     THEN AdminResponds(400)
     ELSE /\ adminPc' = "findOrder"
          /\ UNCHANGED << adminReq, adminIdx, adminResponse >>
  /\ UNCHANGED << storeVars, txVars, localVars, routeVars, catalogVars, itemStatus, pendingInsert,
                  adminOps, adminTxStatus, adminTxItems, adminNotification >>

\* db.query.orders.findFirst: 404 when no order has the identifier.
FindOrder ==
  /\ adminPc = "findOrder"
  /\ IF \E o \in orders : o.orderId = adminReq.orderId
     THEN /\ adminPc' = "updateOrder"
          /\ UNCHANGED << adminReq, adminIdx, adminResponse >>
     ELSE AdminResponds(404)
  /\ UNCHANGED << storeVars, txVars, localVars, routeVars, catalogVars, itemStatus, pendingInsert,
                  adminOps, adminTxStatus, adminTxItems, adminNotification >>

\* BEGIN, then the update of the order's status when a status is given.
UpdateOrderStatus ==
  /\ adminPc = "updateOrder"
  /\ adminTxStatus' =
       IF adminReq.status # ""
       THEN { [orderId |-> adminReq.orderId, status |-> adminReq.status] }
       ELSE {}
  /\ IF Len(adminReq.itemStatuses) > 0
     THEN adminPc' = "updateItems" /\ adminIdx' = 1
     ELSE adminPc' = "sendStatus" /\ UNCHANGED adminIdx
  /\ UNCHANGED << storeVars, txVars, localVars, routeVars, catalogVars, itemStatus, pendingInsert,
                  adminReq, adminOps, adminTxItems, adminNotification, adminResponse >>

\* Mutant of UpdateItemStatus: the item update issued on db instead of tx, so
\* that it is committed on its own.
DbUpdateItemStatus ==
  /\ adminPc = "updateItems"
  /\ LET entry == adminReq.itemStatuses[adminIdx]
     IN  IF entry.status \notin validItemStatuses
         THEN /\ adminPc' = "rollbackPatch"
              /\ UNCHANGED << itemStatus, adminIdx >>
         ELSE /\ itemStatus' =
                   IF \E it \in orderItems : it.orderItemId = entry.orderItemId
                   THEN [itemStatus EXCEPT ![entry.orderItemId] = entry.status]
                   ELSE itemStatus
              /\ IF adminIdx < Len(adminReq.itemStatuses)
                 THEN adminIdx' = adminIdx + 1 /\ UNCHANGED adminPc
                 ELSE adminIdx' = 0 /\ adminPc' = "sendStatus"
  /\ UNCHANGED << storeVars, txVars, localVars, routeVars, catalogVars, pendingInsert, adminTxItems,
                  adminReq, adminOps, adminTxStatus, adminNotification, adminResponse >>

\* One entry of itemStatuses: throw on a status outside the item enumeration,
\* otherwise update the status of the item with that identifier, if it exists.
UpdateItemStatus ==
  /\ adminPc = "updateItems"
  /\ LET entry == adminReq.itemStatuses[adminIdx]
     IN  IF entry.status \notin validItemStatuses
         THEN /\ adminPc' = "rollbackPatch"
              /\ UNCHANGED << adminTxItems, adminIdx >>
         ELSE /\ adminTxItems' =
                   IF \E it \in orderItems : it.orderItemId = entry.orderItemId
                   THEN { w \in adminTxItems : w.orderItemId # entry.orderItemId }
                          \cup {entry}
                   ELSE adminTxItems
              /\ IF adminIdx < Len(adminReq.itemStatuses)
                 THEN adminIdx' = adminIdx + 1 /\ UNCHANGED adminPc
                 ELSE adminIdx' = 0 /\ adminPc' = "sendStatus"
  /\ UNCHANGED << storeVars, txVars, localVars, routeVars, catalogVars, itemStatus, pendingInsert,
                  adminReq, adminOps, adminTxStatus, adminNotification, adminResponse >>

\* The status e-mail, sent only when a status is given; whatever the send
\* does is caught and logged.
SendStatusEmail(outcome) ==
  /\ adminPc = "sendStatus"
  /\ adminNotification' = IF adminReq.status # "" THEN outcome ELSE "none"
  /\ adminPc' = "commitPatch"
  /\ UNCHANGED << storeVars, txVars, localVars, routeVars, catalogVars, itemStatus, pendingInsert,
                  adminReq, adminIdx, adminOps, adminTxStatus, adminTxItems,
                  adminResponse >>

\* COMMIT, then 200.
CommitPatch ==
  /\ adminPc = "commitPatch"
  /\ orders' =
       { IF \E w \in adminTxStatus : w.orderId = o.orderId
         THEN [o EXCEPT !.status = (CHOOSE w \in adminTxStatus : w.orderId = o.orderId).status]
         ELSE o : o \in orders }
  /\ itemStatus' =
       [ i \in ItemIds |->
           IF \E w \in adminTxItems : w.orderItemId = i
           THEN (CHOOSE w \in adminTxItems : w.orderItemId = i).status
           ELSE itemStatus[i] ]
  /\ adminTxStatus' = {}
  /\ adminTxItems' = {}
  /\ AdminResponds(200)
  /\ UNCHANGED << stockQuantity, paymentMethods, orderItems, txVars, localVars, routeVars,
                  catalogVars, pendingInsert, adminOps, adminNotification >>

\* A statement of the request fails in the store: the handler's catch block
\* answers 500 (after the rollback, when a transaction was begun).
AdminStoreError ==
  /\ adminPc \in {"deleteProduct", "findOrder", "updateOrder", "updateItems",
                  "commitPatch"}
  /\ adminPc' = "rollbackPatch"
  /\ UNCHANGED << storeVars, txVars, localVars, routeVars, catalogVars, itemStatus, pendingInsert,
                  adminReq, adminIdx, adminOps, adminTxStatus, adminTxItems,
                  adminNotification, adminResponse >>

\* ROLLBACK (when the transaction was begun), then the catch block: 500.
RollbackPatch ==
  /\ adminPc = "rollbackPatch"
  /\ adminTxStatus' = {}
  /\ adminTxItems' = {}
  /\ AdminResponds(500)
  /\ UNCHANGED << storeVars, txVars, localVars, routeVars, catalogVars, itemStatus, pendingInsert,
                  adminOps, adminNotification >>

\* -------------- PATCH /stocks/increaseStockById/:id, decreaseStockById/:id
\* An UPDATE of a product row waits while an open transaction has updated it.
RowUnlocked(p) == \A c \in Checkouts : p \notin txLocked[c]

\* res.status(code).send({message}): the handler returns.
AdjustResponds(a, route, code, message) ==
  /\ adjustResponses' = [adjustResponses EXCEPT ![a] =
        Append(@, [route |-> route, code |-> code, message |-> message])]
  /\ adjustPc' = [adjustPc EXCEPT ![a] = "idle"]

\* The request arrives and the product is selected: 404 when there is no
\* such row, otherwise newStockQuantity is the stock read plus one.
IncreaseStockById(a, id) ==
  /\ adjustPc[a] = "idle"
  /\ Len(adjustResponses[a]) < MaxAdjustOps
  /\ adjustReq' = [adjustReq EXCEPT ![a] = [route |-> "increaseStockById", id |-> id]]
  /\ IF id \notin productRows
     THEN /\ AdjustResponds(a, "increaseStockById", 404, "Product not found")
          /\ UNCHANGED newStockQuantity
     ELSE /\ newStockQuantity' = [newStockQuantity EXCEPT ![a] = stockQuantity[id] + 1]
          /\ adjustPc' = [adjustPc EXCEPT ![a] = "update"]
          /\ UNCHANGED adjustResponses
  /\ UNCHANGED << storeVars, txVars, localVars, catalogVars, adminVars, besideAdjustVars >>

\* Mutant of DecreaseStockById: the handler without its check of
\* newStockQuantity < 0.
DecreaseUnchecked(a, id) ==
  /\ adjustPc[a] = "idle"
  /\ Len(adjustResponses[a]) < MaxAdjustOps
  /\ adjustReq' = [adjustReq EXCEPT ![a] = [route |-> "decreaseStockById", id |-> id]]
  /\ IF id \notin productRows
     THEN /\ AdjustResponds(a, "decreaseStockById", 404, "Product not found")
          /\ UNCHANGED newStockQuantity
     ELSE /\ newStockQuantity' = [newStockQuantity EXCEPT ![a] = stockQuantity[id] - 1]
          /\ adjustPc' = [adjustPc EXCEPT ![a] = "update"]
          /\ UNCHANGED adjustResponses
  /\ UNCHANGED << storeVars, txVars, localVars, catalogVars, adminVars, besideAdjustVars >>

\* The request arrives and the product is selected: 404 when there is no
\* such row, 200 'Already zero' when the stock read less one is negative.
DecreaseStockById(a, id) ==
  /\ adjustPc[a] = "idle"
  /\ Len(adjustResponses[a]) < MaxAdjustOps
  /\ adjustReq' = [adjustReq EXCEPT ![a] = [route |-> "decreaseStockById", id |-> id]]
  /\ IF id \notin productRows
     THEN /\ AdjustResponds(a, "decreaseStockById", 404, "Product not found")
          /\ UNCHANGED newStockQuantity
     ELSE IF stockQuantity[id] - 1 < 0
     THEN /\ AdjustResponds(a, "decreaseStockById", 200, "Already zero")
          /\ newStockQuantity' = [newStockQuantity EXCEPT ![a] = stockQuantity[id] - 1]
     ELSE /\ newStockQuantity' = [newStockQuantity EXCEPT ![a] = stockQuantity[id] - 1]
          /\ adjustPc' = [adjustPc EXCEPT ![a] = "update"]
          /\ UNCHANGED adjustResponses
  /\ UNCHANGED << storeVars, txVars, localVars, catalogVars, adminVars, besideAdjustVars >>

\* db.update(products).set({stockQuantity: newStockQuantity}).where(id), then
\* the success response.
SetStockQuantity(a) ==
  /\ adjustPc[a] = "update"
  /\ RowUnlocked(adjustReq[a].id)
  /\ stockQuantity' =
       IF adjustReq[a].id \in productRows
       THEN [stockQuantity EXCEPT ![adjustReq[a].id] = newStockQuantity[a]]
       ELSE stockQuantity
  /\ AdjustResponds(a, adjustReq[a].route, 200,
        IF adjustReq[a].route = "increaseStockById"
        THEN "Stock quantity incremented successfully"
        ELSE "Stock quantity decremented successfully")
  /\ UNCHANGED << paymentMethods, orders, orderItems, txVars, localVars, catalogVars,
                  adminVars, adjustReq, newStockQuantity, besideAdjustVars >>

\* The update fails in the store: the handler's catch block answers 500.
AdjustStoreError(a) ==
  /\ adjustPc[a] = "update"
  /\ AdjustResponds(a, adjustReq[a].route, 500, "Internal server error")
  /\ UNCHANGED << storeVars, txVars, localVars, catalogVars, adminVars, adjustReq,
                  newStockQuantity, besideAdjustVars >>

\* ------------------------------------------- PUT /cart/update-items
\* res.status(code).json(...): the handler returns.
CartResponds(code) ==
  /\ cartResponse' = code
  /\ cartPc' = "idle"

\* The request arrives; a body without cartId or without an items array is
\* answered 400, otherwise db.transaction is entered.
UpdateItems(r) ==
  /\ cartPc = "idle"
  /\ cartOps < MaxCartOps
  /\ cartReq' = r
  /\ cartOps' = cartOps + 1
  /\ cartIdx' = 0
  /\ IF r.complete
     THEN cartPc' = "deleteItems" /\ cartResponse' = 0
     ELSE CartResponds(400)
  /\ UNCHANGED << storeVars, txVars, localVars, catalogVars, adminVars, cartItems,
                  cartTxDeleted, cartTxInserted, besideCartVars >>

\* Mutant of DeleteCartItems: the delete issued on db instead of trx, so that
\* it is committed on its own.
DbDeleteCartItems ==
  /\ cartPc = "deleteItems"
  /\ cartItems' = { it \in cartItems : it.cartId # cartReq.cartId }
  /\ IF Len(cartReq.items) > 0
     THEN cartPc' = "insertItem" /\ cartIdx' = 1
     ELSE cartPc' = "commitCart" /\ UNCHANGED cartIdx
  /\ UNCHANGED << storeVars, txVars, localVars, catalogVars, adminVars, cartTxDeleted,
                  cartTxInserted, cartReq, cartOps, cartResponse, besideCartVars >>

\* BEGIN, then trx.delete(cartItems).where(cartId): the cart's items are
\* deleted inside the transaction.
DeleteCartItems ==
  /\ cartPc = "deleteItems"
  /\ cartTxDeleted' = TRUE
  /\ IF Len(cartReq.items) > 0
     THEN cartPc' = "insertItem" /\ cartIdx' = 1
     ELSE cartPc' = "commitCart" /\ UNCHANGED cartIdx
  /\ UNCHANGED << storeVars, txVars, localVars, catalogVars, adminVars, cartItems,
                  cartTxInserted, cartReq, cartOps, cartResponse, besideCartVars >>

\* One iteration of the items loop: throw when productId, quantity or
\* unitPrice is falsy, otherwise insert the item under a fresh identifier.
\* cart_items references carts and products: the insert fails when the cart
\* or the product does not exist.
InsertCartItem ==
  /\ cartPc = "insertItem"
  /\ LET item == cartReq.items[cartIdx]
     IN  IF item.productId = 0 \/ item.quantity = 0 \/ item.unitPrice = 0
         THEN /\ cartPc' = "rollbackCart"
              /\ UNCHANGED << cartTxInserted, cartIdx >>
         ELSE IF cartReq.cartId \notin Carts \/ item.productId \notin productRows
         THEN /\ cartPc' = "rollbackCart"
              /\ UNCHANGED << cartTxInserted, cartIdx >>
         ELSE /\ cartTxInserted' = cartTxInserted \cup
                   { [ cartItemId |-> NextId(cartOps, cartIdx),
                       cartId |-> cartReq.cartId,
                       productId |-> item.productId,
                       quantity |-> item.quantity,
                       unitPrice |-> item.unitPrice ] }
              /\ IF cartIdx < Len(cartReq.items)
                 THEN cartIdx' = cartIdx + 1 /\ UNCHANGED cartPc
                 ELSE cartIdx' = 0 /\ cartPc' = "commitCart"
  /\ UNCHANGED << storeVars, txVars, localVars, catalogVars, adminVars, cartItems,
                  cartTxDeleted, cartReq, cartOps, cartResponse, besideCartVars >>

\* COMMIT, then 200.
CommitCart ==
  /\ cartPc = "commitCart"
  /\ cartItems' =
       (IF cartTxDeleted
        THEN { it \in cartItems : it.cartId # cartReq.cartId }
        ELSE cartItems) \cup cartTxInserted
  /\ cartTxDeleted' = FALSE
  /\ cartTxInserted' = {}
  /\ CartResponds(200)
  /\ UNCHANGED << storeVars, txVars, localVars, catalogVars, adminVars, cartReq,
                  cartIdx, cartOps, besideCartVars >>

\* A statement of the transaction (BEGIN and COMMIT included) fails in the
\* store.
CartStoreError ==
  /\ cartPc \in {"deleteItems", "insertItem", "commitCart"}
  /\ cartPc' = "rollbackCart"
  /\ UNCHANGED << storeVars, txVars, localVars, catalogVars, adminVars, cartItems,
                  cartTxDeleted, cartTxInserted, cartReq, cartIdx, cartOps,
                  cartResponse, besideCartVars >>

\* ROLLBACK, then the handler's catch block: 500.
RollbackCart ==
  /\ cartPc = "rollbackCart"
  /\ cartTxDeleted' = FALSE
  /\ cartTxInserted' = {}
  /\ CartResponds(500)
  /\ UNCHANGED << storeVars, txVars, localVars, catalogVars, adminVars, cartItems,
                  cartReq, cartIdx, cartOps, besideCartVars >>

\* ------------- POST /profile/payment-methods, DELETE /profile/payment-methods/:paymentId
\* req.user.userId: the user the clients are logged in as.
ProfileUser == CHOOSE u \in Users : TRUE

MethodsOf(u) == { m \in paymentMethods : m.userId = u }

\* res.status(code).json(...): the handler returns and the request is over.
ProfileResponds(k, code) ==
  /\ profileResponse' = [profileResponse EXCEPT ![k] = code]
  /\ profilePc' = [profilePc EXCEPT ![k] = "idle"]
  /\ profileReq' = [profileReq EXCEPT ![k] = NoProfileRequest]
  /\ existingMethods' = [existingMethods EXCEPT ![k] = 0]
  /\ otherMethod' = [otherMethod EXCEPT ![k] = 0]

ProfileReceives(k) ==
  /\ profilePc[k] = "idle"
  /\ profileOps[k] < MaxProfileOps
  /\ profileOps' = [profileOps EXCEPT ![k] = @ + 1]

\* The request arrives and the user's methods are selected: 400 when there
\* are MAX_PAYMENT_METHODS_PER_USER of them already, 400 when the body is
\* invalid.
AddPaymentMethod(k, r) ==
  /\ ProfileReceives(k)
  /\ LET existing == Cardinality(MethodsOf(ProfileUser))
     IN  IF existing >= MAX_PAYMENT_METHODS_PER_USER \/ ~r.valid
         THEN ProfileResponds(k, 400)
         ELSE /\ profileReq' = [profileReq EXCEPT ![k] = r]
              /\ existingMethods' = [existingMethods EXCEPT ![k] = existing]
              /\ UNCHANGED otherMethod
              /\ profilePc' = [profilePc EXCEPT ![k] =
                    IF r.isDefault = "true" \/ existing = 0
                    THEN "clearDefault" ELSE "insertMethod"]
              /\ profileResponse' = [profileResponse EXCEPT ![k] = 0]
  /\ UNCHANGED << storeVars, txVars, localVars, catalogVars, adminVars, isDefault,
                  besideProfileVars >>

\* db.update(paymentMethods).set({isDefault: false}).where(userId)
ClearDefault(k) ==
  /\ profilePc[k] = "clearDefault"
  /\ isDefault' = isDefault \ { m.paymentId : m \in MethodsOf(ProfileUser) }
  /\ profilePc' = [profilePc EXCEPT ![k] = "insertMethod"]
  /\ UNCHANGED << storeVars, txVars, localVars, catalogVars, adminVars, profileReq,
                  existingMethods, otherMethod, profileOps, profileResponse,
                  besideProfileVars >>

\* db.insert(paymentMethods) with isDefault ?? existingMethods.length === 0,
\* then 201.
InsertMethod(k) ==
  /\ profilePc[k] = "insertMethod"
  /\ LET newId == ProfilePaymentId(k, profileOps[k])
         default == \/ profileReq[k].isDefault = "true"
                    \/ profileReq[k].isDefault = "undefined" /\ existingMethods[k] = 0
     IN  /\ paymentMethods' = paymentMethods \cup
               { [paymentId |-> newId, userId |-> ProfileUser] }
         /\ isDefault' = IF default THEN isDefault \cup {newId} ELSE isDefault
  /\ ProfileResponds(k, 201)
  /\ UNCHANGED << stockQuantity, orders, orderItems, txVars, localVars, catalogVars,
                  adminVars, profileOps, besideProfileVars >>

\* The request arrives and the method is selected by its identifier and the
\* user: 404 when there is no such row.
DeletePaymentMethod(k, r) ==
  /\ ProfileReceives(k)
  /\ IF \E m \in MethodsOf(ProfileUser) : m.paymentId = r.paymentId
     THEN /\ profileReq' = [profileReq EXCEPT ![k] = r]
          /\ profilePc' = [profilePc EXCEPT ![k] =
                IF r.paymentId \in isDefault THEN "selectOthers" ELSE "deleteMethod"]
          /\ profileResponse' = [profileResponse EXCEPT ![k] = 0]
          /\ UNCHANGED << existingMethods, otherMethod >>
     ELSE ProfileResponds(k, 404)
  /\ UNCHANGED << storeVars, txVars, localVars, catalogVars, adminVars, isDefault,
                  besideProfileVars >>

\* The user's other methods are selected; the select has no ORDER BY, so
\* otherMethods[0] is any of them.
SelectOthers(k) ==
  /\ profilePc[k] = "selectOthers"
  /\ LET otherMethods ==
           { m \in MethodsOf(ProfileUser) : m.paymentId # profileReq[k].paymentId }
     IN  IF otherMethods = {}
         THEN /\ profilePc' = [profilePc EXCEPT ![k] = "deleteMethod"]
              /\ UNCHANGED otherMethod
         ELSE /\ \E m \in otherMethods :
                   otherMethod' = [otherMethod EXCEPT ![k] = m.paymentId]
              /\ profilePc' = [profilePc EXCEPT ![k] = "setDefault"]
  /\ UNCHANGED << storeVars, txVars, localVars, catalogVars, adminVars, isDefault,
                  profileReq, existingMethods, profileOps, profileResponse,
                  besideProfileVars >>

\* db.update(paymentMethods).set({isDefault: true}).where(paymentId =
\* otherMethods[0].paymentId)
SetDefault(k) ==
  /\ profilePc[k] = "setDefault"
  /\ isDefault' =
       IF \E m \in paymentMethods : m.paymentId = otherMethod[k]
       THEN isDefault \cup {otherMethod[k]}
       ELSE isDefault
  /\ profilePc' = [profilePc EXCEPT ![k] = "deleteMethod"]
  /\ UNCHANGED << storeVars, txVars, localVars, catalogVars, adminVars, profileReq,
                  existingMethods, otherMethod, profileOps, profileResponse,
                  besideProfileVars >>

\* db.delete(paymentMethods).where(paymentId), then 200.
DeleteMethod(k) ==
  /\ profilePc[k] = "deleteMethod"
  /\ paymentMethods' = { m \in paymentMethods : m.paymentId # profileReq[k].paymentId }
  /\ isDefault' = isDefault \ {profileReq[k].paymentId}
  /\ ProfileResponds(k, 200)
  /\ UNCHANGED << stockQuantity, orders, orderItems, txVars, localVars, catalogVars,
                  adminVars, profileOps, besideProfileVars >>

\* A statement of the request fails in the store: the handler's catch block
\* answers 500.
ProfileStoreError(k) ==
  /\ profilePc[k] \in {"clearDefault", "insertMethod", "selectOthers", "setDefault",
                       "deleteMethod"}
  /\ ProfileResponds(k, 500)
  /\ UNCHANGED << storeVars, txVars, localVars, catalogVars, adminVars, isDefault,
                  profileOps, besideProfileVars >>

\* ------------------- POST /auth/login, POST /auth/refresh, POST /auth/logout
\* The user the clients act for.
AuthUser == CHOOSE u \in Users : TRUE

\* res.status(code).json(...): the handler returns and the request is over.
AuthResponds(k, route, code, presented, issued) ==
  /\ authResponse' = [authResponse EXCEPT ![k] =
        [route |-> route, code |-> code, presented |-> presented, issued |-> issued]]
  /\ authPc' = [authPc EXCEPT ![k] = "idle"]
  /\ authReq' = [authReq EXCEPT ![k] = NoAuthRequest]
  /\ tokens' = [tokens EXCEPT ![k] = NoToken]

AuthReceives(k) ==
  /\ authPc[k] = "idle"
  /\ authOps[k] < MaxAuthOps
  /\ authOps' = [authOps EXCEPT ![k] = @ + 1]

\* One second passes.
Tick ==
  /\ now < MaxClock
  /\ now' = now + 1
  /\ UNCHANGED << storeVars, txVars, localVars, catalogVars, adminVars, refreshToken,
                  authPc, authReq, tokens, accessToken, authOps, authResponse,
                  besideAuthVars >>

\* The request arrives: 400 for a malformed body, 401 when the user is not
\* found or the password is wrong; otherwise the tokens are generated.
Login(k, credentials) ==
  /\ AuthReceives(k)
  /\ CASE credentials = "malformed" -> AuthResponds(k, "login", 400, NoToken, NoToken)
       [] credentials = "wrong" -> AuthResponds(k, "login", 401, NoToken, NoToken)
       [] OTHER ->
            /\ authReq' = [authReq EXCEPT ![k] = [route |-> "login", refreshToken |-> NoToken]]
            /\ tokens' = [tokens EXCEPT ![k] = RefreshTokenOf(AuthUser, now)]
            /\ authPc' = [authPc EXCEPT ![k] = "storeToken"]
            /\ UNCHANGED authResponse
  /\ UNCHANGED << storeVars, txVars, localVars, catalogVars, adminVars, refreshToken,
                  now, accessToken, besideAuthVars >>

\* The request arrives: 400 for a body without a refreshToken string, 401
\* when no user row holds the presented token; otherwise the tokens are
\* generated for the user found.
Refresh(k, presented) ==
  /\ AuthReceives(k)
  /\ IF presented = NoToken
     THEN AuthResponds(k, "refresh", 400, presented, NoToken)
     ELSE IF \A u \in Users : refreshToken[u] # presented
     THEN AuthResponds(k, "refresh", 401, presented, NoToken)
     ELSE /\ authReq' = [authReq EXCEPT ![k] =
                [route |-> "refresh", refreshToken |-> presented]]
          /\ tokens' = [tokens EXCEPT ![k] =
                RefreshTokenOf(CHOOSE u \in Users : refreshToken[u] = presented, now)]
          /\ authPc' = [authPc EXCEPT ![k] = "storeToken"]
          /\ UNCHANGED authResponse
  /\ UNCHANGED << storeVars, txVars, localVars, catalogVars, adminVars, refreshToken,
                  now, accessToken, besideAuthVars >>

\* db.update(users).set({refreshToken: tokens.refreshToken}).where(userId),
\* then the response with the tokens.
StoreToken(k) ==
  /\ authPc[k] = "storeToken"
  /\ refreshToken' = [refreshToken EXCEPT ![tokens[k].userId] = tokens[k]]
  /\ accessToken' = [accessToken EXCEPT ![k] = TRUE]
  /\ AuthResponds(k, authReq[k].route, 200, authReq[k].refreshToken, tokens[k])
  /\ UNCHANGED << storeVars, txVars, localVars, catalogVars, adminVars, now, authOps,
                  besideAuthVars >>

\* The request arrives: authMiddleware answers 401 without a valid access
\* token.
Logout(k) ==
  /\ AuthReceives(k)
  /\ IF accessToken[k]
     THEN /\ authReq' = [authReq EXCEPT ![k] = [route |-> "logout", refreshToken |-> NoToken]]
          /\ authPc' = [authPc EXCEPT ![k] = "clearToken"]
          /\ UNCHANGED << tokens, authResponse >>
     ELSE AuthResponds(k, "logout", 401, NoToken, NoToken)
  /\ UNCHANGED << storeVars, txVars, localVars, catalogVars, adminVars, refreshToken,
                  now, accessToken, besideAuthVars >>

\* db.update(users).set({refreshToken: null}).where(userId), then the response.
ClearToken(k) ==
  /\ authPc[k] = "clearToken"
  /\ refreshToken' = [refreshToken EXCEPT ![AuthUser] = NoToken]
  /\ AuthResponds(k, "logout", 200, NoToken, NoToken)
  /\ UNCHANGED << storeVars, txVars, localVars, catalogVars, adminVars, now,
                  accessToken, authOps, besideAuthVars >>

\* The update fails in the store: the handler's catch block answers 500.
AuthStoreError(k) ==
  /\ authPc[k] \in {"storeToken", "clearToken"}
  /\ AuthResponds(k, authReq[k].route, 500, authReq[k].refreshToken, NoToken)
  /\ UNCHANGED << storeVars, txVars, localVars, catalogVars, adminVars, refreshToken,
                  now, accessToken, authOps, besideAuthVars >>

\* ----------------------------------------------------------------- Next
\* One step of request c after its arrival.
CheckoutStep(c) ==
  \/ BeginTransaction(c)
  \/ InsertPaymentMethod(c)
  \/ CheckStock(c)
  \/ UpdateStock(c)
  \/ InsertOrder(c)
  \/ InsertOrderItem(c)
  \/ \E o \in SendOutcomes : SendEmail(c, o)
  \/ Commit(c)
  \/ StoreError(c)
  \/ Rollback(c)

Next ==
  \E c \in Checkouts :
    \/ \E r \in Requests : Checkout(c, r)
    \/ CheckoutStep(c)

Spec == Init /\ [][Next]_vars

\* ------------------------------------------------- the totals of one checkout
\* One request at a time, with prices and quantities that exercise the
\* arithmetic of the total, against stock that suffices for every line.
TotalsMaxQuantity == 3
TotalsPrices == {50, 785, 3365, 12450}
TotalsStock == MaxLines * TotalsMaxQuantity

TotalsLines == { [productId |-> p, quantity |-> q, basePrice |-> b] :
                   p \in Products, q \in 1..TotalsMaxQuantity, b \in TotalsPrices }

TotalsRequests ==
  [ products : UNION { [1..n -> TotalsLines] : n \in 1..MaxLines },
    paymentMethod : {"object"}, userId : Users, addressId : Addresses,
    complete : {TRUE} ]

InitTotals ==
  /\ stockQuantity = [p \in Products |-> TotalsStock]
  /\ paymentMethods = { [paymentId |-> i, userId |-> "u1"] : i \in SavedPaymentIds }
  /\ orders = {}
  /\ orderItems = {}
  /\ txLocked = [c \in Checkouts |-> {}]
  /\ txStock = [c \in Checkouts |-> [p \in Products |-> 0]]
  /\ txPaymentMethods = [c \in Checkouts |-> {}]
  /\ txOrders = [c \in Checkouts |-> {}]
  /\ txOrderItems = [c \in Checkouts |-> {}]
  /\ txState = [c \in Checkouts |-> "none"]
  /\ pc = [c \in Checkouts |-> "idle"]
  /\ req = [c \in Checkouts |-> NoRequest]
  /\ idx = [c \in Checkouts |-> 0]
  /\ paymentMethodId = [c \in Checkouts |-> 0]
  /\ error = [c \in Checkouts |-> NoError]
  /\ notification = [c \in Checkouts |-> "none"]
  /\ response = [c \in Checkouts |-> << >>]
  /\ InitManagement

NextTotals ==
  \/ \E r \in TotalsRequests : Checkout(1, r)
  \/ CheckoutStep(1)

SpecTotals == InitTotals /\ [][NextTotals]_vars

\* ------------------------------------ checkouts and store management
\* Checkouts of one line with an inline card, one in flight at a time,
\* concurrent with the requests of the store-management client.
ManagedRequests ==
  [ products : [1..1 -> Lines], paymentMethod : {"object"}, userId : Users,
    addressId : Addresses, complete : {TRUE} ]

AdminStep ==
  \/ \E r \in UpdateProductRequests : UpdateProduct(r)
  \/ ValidateProduct
  \/ DeleteProduct
  \/ \E row \in pendingInsert : InsertProduct(row)
  \/ \E r \in PatchStatusRequests : PatchOrderStatus(r)
  \/ ValidateStatus
  \/ FindOrder
  \/ UpdateOrderStatus
  \/ UpdateItemStatus
  \/ \E o \in SendOutcomes : SendStatusEmail(o)
  \/ CommitPatch
  \/ AdminStoreError
  \/ RollbackPatch

NextManaged ==
  \/ \E c \in Checkouts :
       \/ /\ \A d \in Checkouts \ {c} : pc[d] \in {"idle", "done"}
          /\ \E r \in ManagedRequests : Checkout(c, r)
       \/ CheckoutStep(c)
  \/ AdminStep

SpecManaged == Init /\ [][NextManaged]_vars

\* ------------------------------------- the status route on one order
\* One checkout of two lines with an inline card, and status requests for its
\* order whose itemStatuses name up to both of its items.  Object.entries yields the
\* integer keys of itemStatuses in ascending order, each once.
MaxStatusEntries == 2
EntryItemIds == { NextId(1, 2 + i) : i \in 1..MaxLines }

OrderedItemStatusLists ==
  { l \in UNION { [1..n -> [orderItemId : EntryItemIds, status : ItemStatusInputs]] :
                    n \in 0..MaxStatusEntries } :
      \A i \in 1..Len(l) : \A j \in 1..Len(l) :
        i < j => l[i].orderItemId < l[j].orderItemId }

StatusRequests ==
  [ route : {"patchStatus"}, orderId : { NextId(1, 2) }, status : StatusInputs,
    itemStatuses : OrderedItemStatusLists ]

StatusCheckoutRequests ==
  [ products : [1..MaxLines -> Lines], paymentMethod : {"object"}, userId : Users,
    addressId : Addresses, complete : {TRUE} ]

NextStatus ==
  \/ \E r \in StatusCheckoutRequests : Checkout(1, r)
  \/ CheckoutStep(1)
  \/ \E r \in StatusRequests : PatchOrderStatus(r)
  \/ ValidateStatus
  \/ FindOrder
  \/ UpdateOrderStatus
  \/ UpdateItemStatus
  \/ \E o \in SendOutcomes : SendStatusEmail(o)
  \/ CommitPatch
  \/ AdminStoreError
  \/ RollbackPatch

SpecStatus == Init /\ [][NextStatus]_vars

\* --------------------------------- stock adjustments beside a checkout
\* One checkout of one line with an inline card, concurrent with the
\* stock-adjustment clients.
StockCheckoutRequests ==
  [ products : [1..1 -> Lines], paymentMethod : {"object"}, userId : Users,
    addressId : Addresses, complete : {TRUE} ]

AdjustStep(a) ==
  \/ \E id \in AdjustedProducts : IncreaseStockById(a, id)
  \/ \E id \in AdjustedProducts : DecreaseStockById(a, id)
  \/ SetStockQuantity(a)
  \/ AdjustStoreError(a)

NextStock ==
  \/ \E r \in StockCheckoutRequests : Checkout(1, r)
  \/ CheckoutStep(1)
  \/ \E a \in Adjusters : AdjustStep(a)

SpecStock == Init /\ [][NextStock]_vars

\* ------------------------- payment methods beside a checkout
\* One checkout of one line with an inline card, concurrent with the profile
\* clients.
ProfileCheckoutRequests ==
  [ products : [1..1 -> { l \in Lines : l.productId = 1 }], paymentMethod : {"object"},
    userId : Users, addressId : Addresses, complete : {TRUE} ]

\* req.params.paymentId: a method in the store, or none.
DeleteMethodRequests ==
  [ route : {"deletePaymentMethod"}, isDefault : {"undefined"}, valid : {TRUE},
    paymentId : { m.paymentId : m \in paymentMethods } \cup {0} ]

ProfileStep(k) ==
  \/ \E r \in AddMethodRequests : AddPaymentMethod(k, r)
  \/ ClearDefault(k)
  \/ InsertMethod(k)
  \/ \E r \in DeleteMethodRequests : DeletePaymentMethod(k, r)
  \/ SelectOthers(k)
  \/ SetDefault(k)
  \/ DeleteMethod(k)
  \/ ProfileStoreError(k)

NextProfile ==
  \/ \E r \in ProfileCheckoutRequests : Checkout(1, r)
  \/ CheckoutStep(1)
  \/ \E k \in ProfileClients : ProfileStep(k)

SpecProfile == Init /\ [][NextProfile]_vars

\* ------------------------------------------------ authentication alone
AuthStep(k) ==
  \/ \E credentials \in {"malformed", "wrong", "right"} : Login(k, credentials)
  \/ \E presented \in PresentedTokens : Refresh(k, presented)
  \/ StoreToken(k)
  \/ Logout(k)
  \/ ClearToken(k)
  \/ AuthStoreError(k)

NextAuth ==
  \/ Tick
  \/ \E k \in AuthClients : AuthStep(k)

SpecAuth == Init /\ [][NextAuth]_vars

\* ------------------------------------------------- the cart alone
NextCart ==
  \/ \E r \in CartRequests : UpdateItems(r)
  \/ DeleteCartItems
  \/ InsertCartItem
  \/ CommitCart
  \/ CartStoreError
  \/ RollbackCart

SpecCart == Init /\ [][NextCart]_vars

\* ------------------------------------------- the inputs of one checkout
\* One request whose fields are what a client can send: a userId, an
\* addressId or a productId that names no row, and any integer as a quantity.
UnknownUsers == {"u9"}
UnknownAddresses == {"a9"}
UnknownProducts == { NumProducts + 1 }
InputQuantities == { 0 - 1, 0, 1 }

InputLines == { [productId |-> p, quantity |-> q, basePrice |-> BasePriceOf(p)] :
                  p \in Products \cup UnknownProducts, q \in InputQuantities }

InputRequests ==
  [ products : UNION { [1..n -> InputLines] : n \in 0..MaxLines },
    paymentMethod : PaymentInputs,
    userId : Users \cup UnknownUsers,
    addressId : Addresses \cup UnknownAddresses,
    complete : {TRUE} ]

NextInputs ==
  \/ \E r \in InputRequests : Checkout(1, r)
  \/ CheckoutStep(1)

SpecInputs == Init /\ [][NextInputs]_vars

\* ------------------------------------------------- derived quantities
RECURSIVE QuantityUpTo(_, _, _)
\* Sum of the quantities of the first n lines of a product list that name p.
QuantityUpTo(products, p, n) ==
  IF n = 0 THEN 0
  ELSE QuantityUpTo(products, p, n - 1)
       + (IF products[n].productId = p THEN products[n].quantity ELSE 0)

RECURSIVE SubtotalCents(_, _)
\* The exact sum of basePrice x quantity over the first n lines, in cents.
SubtotalCents(products, n) ==
  IF n = 0 THEN 0
  ELSE SubtotalCents(products, n - 1) + products[n].basePrice * products[n].quantity

RequestedQuantity(c, p) == QuantityUpTo(req[c].products, p, Len(req[c].products))

RECURSIVE SumOver(_, _, _)
\* Sum of RequestedQuantity(c, p) over the requests c of a set.
SumOver(S, p, n) ==
  IF n = 0 THEN 0
  ELSE SumOver(S, p, n - 1) + (IF n \in S THEN RequestedQuantity(n, p) ELSE 0)

OrderIdOf(c) == NextId(c, 2)
PaymentIdOf(c) == NextId(c, 1)

Committed(c) == txState[c] = "committed"
Failed(c) == pc[c] = "done" /\ ~Committed(c)
OrderVisible(c) == \E o \in orders : o.orderId = OrderIdOf(c)
VisibleItems(c) == { it \in orderItems : it.orderId = OrderIdOf(c) }
Quiescent == \A c \in Checkouts : pc[c] \in {"idle", "done"}

RECURSIVE SumSubtotals(_)
\* Sum of the subtotals of a set of order items, in cents.
SumSubtotals(items) ==
  IF items = {} THEN 0
  ELSE LET it == CHOOSE x \in items : TRUE
       IN  it.subtotal + SumSubtotals(items \ {it})

\* The identifier a request carries when its paymentMethod is an identifier:
\* the user's saved card.
SuppliedPaymentId(r) == CHOOSE i \in SavedPaymentIds : TRUE

\* GET /stocks/orders/:orderId: the order found by its identifier in the
\* committed store, with its items, or 404.
GetOrder(orderId) ==
  LET found == { o \in orders : o.orderId = orderId }
  IN  IF found = {}
      THEN [ code |-> 404, status |-> "none", items |-> {} ]
      ELSE [ code |-> 200,
             status |-> (CHOOSE o \in found : TRUE).status,
             items |-> { it \in orderItems : it.orderId = orderId } ]

RECURSIVE CountMessage(_, _)
\* The number of responses of a sequence that are 200 with the message given.
CountMessage(responses, message) ==
  IF responses = << >> THEN 0
  ELSE CountMessage(Tail(responses), message)
       + (IF Head(responses).code = 200 /\ Head(responses).message = message
          THEN 1 ELSE 0)

RECURSIVE SuccessfulAdjustments(_, _)
\* The number of adjustments answered with the message, over clients 1..n.
SuccessfulAdjustments(message, n) ==
  IF n = 0 THEN 0
  ELSE SuccessfulAdjustments(message, n - 1) + CountMessage(adjustResponses[n], message)

\* The rows of cart_items the request asks for: item i under the i-th
\* identifier drawn by the request.
RequestedCartItems ==
  { [ cartItemId |-> NextId(cartOps, i),
      cartId |-> cartReq.cartId,
      productId |-> cartReq.items[i].productId,
      quantity |-> cartReq.items[i].quantity,
      unitPrice |-> cartReq.items[i].unitPrice ] : i \in 1..Len(cartReq.items) }

ItemsOfCart(rows, cartId) == { it \in rows : it.cartId = cartId }

AdjustQuiescent == \A a \in Adjusters : adjustPc[a] = "idle"

\* ------------------------------------------------------------- claims

\* C1: a checkout that fails at any step leaves no trace in the store: no
\* payment method, order or order item of it is ever committed, and the
\* committed store (stock included) changes only in the COMMIT step of a
\* checkout that ends committed.
C1_NoRowsOfFailedCheckout ==
  \A c \in Checkouts :
    Failed(c) =>
      /\ \A m \in paymentMethods : m.paymentId # PaymentIdOf(c)
      /\ ~OrderVisible(c)
      /\ VisibleItems(c) = {}

C1_StoreChangesOnlyAtCommit ==
  [][ storeVars' # storeVars =>
        \E c \in Checkouts : pc[c] = "commit" /\ txState'[c] = "committed" ]_vars

C1_FailedCheckoutAtomic ==
  []C1_NoRowsOfFailedCheckout /\ C1_StoreChangesOnlyAtCommit

\* C1 witness: a checkout that had inserted its inline payment method failed
\* the stock check and has returned 500.
C1_Witness ==
  \E c \in Checkouts :
    /\ Failed(c)
    /\ req[c].paymentMethod = "object"
    /\ error[c].kind = "insufficient_stock"
    /\ response[c] = << 500 >>

\* C2: every product's stock_quantity is >= 0 in every reachable state.
C2_StockNonNegative == \A p \in Products : stockQuantity[p] >= 0

\* C3: with stock N and M > N concurrent checkouts of 1 unit of the same
\* product (none failing for another reason than stock), exactly N succeed
\* and the final stock is 0.
C3_ExactlyNSucceed ==
  \A p \in Products :
    ( /\ NumCheckouts > InitialStock
      /\ \A c \in Checkouts :
           /\ pc[c] = "done"
           /\ req[c].complete
           /\ Len(req[c].products) = 1
           /\ req[c].products[1].productId = p
           /\ req[c].products[1].quantity = 1
           /\ Committed(c) \/ error[c].kind = "insufficient_stock" )
    => /\ Cardinality({ c \in Checkouts : Committed(c) }) = InitialStock
       /\ stockQuantity[p] = 0

\* C4: in every committed (observable) state the stock of each product is
\* the initial stock minus the quantities of exactly the checkouts whose order
\* row is visible, and an order is visible together with all of its items.
C4_AtomicVisibility ==
  /\ \A p \in Products :
       stockQuantity[p] =
         InitialStock - SumOver({ c \in Checkouts : OrderVisible(c) }, p, NumCheckouts)
  /\ \A c \in Checkouts :
       Cardinality(VisibleItems(c)) =
         (IF OrderVisible(c) THEN Len(req[c].products) ELSE 0)

\* C4 witness: one checkout's order, items and decrement are visible while
\* another checkout holds uncommitted stock and order writes.
C4_Witness ==
  \E c, d \in Checkouts :
    /\ OrderVisible(c) /\ VisibleItems(c) # {}
    /\ txLocked[d] # {} /\ txOrders[d] # {}

\* C5: the total_amount of every persisted order is the sum of basePrice x
\* quantity over the requested lines times 1.13, rounded once to cents
\* (round(subtotal_cents * 113 / 100), a half rounding up).
C5_TotalRoundedOnce ==
  \A c \in Checkouts :
    \A o \in orders :
      o.orderId = OrderIdOf(c) =>
        o.totalAmount =
          (SubtotalCents(req[c].products, Len(req[c].products)) * 113 + 50) \div 100

\* C6: a checkout whose decrement of some line was applied when the requested
\* quantity exceeded the current stock never commits an order.  With positive
\* quantities a decrement exceeded the stock exactly when the transaction's
\* version of the row is negative.
C6_NoOrderWhenQuantityExceedsStock ==
  [][ \A c \in Checkouts :
        (pc[c] = "commit" /\ txState'[c] = "committed")
          => \A p \in txLocked[c] : txStock[c][p] >= 0 ]_vars

\* C7: when no checkout is in flight, the stock of each product equals the
\* initial stock minus the quantities of the committed checkouts.
C7_NoLostUpdate ==
  Quiescent =>
    \A p \in Products :
      stockQuantity[p] =
        InitialStock - SumOver({ c \in Checkouts : Committed(c) }, p, NumCheckouts)

\* C7 witness: two checkouts that decremented the same product have committed.
C7_Witness ==
  /\ Quiescent
  /\ \E c, d \in Checkouts, p \in Products :
       /\ c # d /\ Committed(c) /\ Committed(d)
       /\ RequestedQuantity(c, p) > 0 /\ RequestedQuantity(d, p) > 0

\* C8: a failed confirmation notification (the sender returned an error or
\* threw) leaves the checkout committed and answered 201.
C8_NotificationFailureHarmless ==
  \A c \in Checkouts :
    ( /\ pc[c] = "done"
      /\ notification[c] \in {"error", "throws"}
      /\ error[c].kind \in {"none", "notification"} )
    => Committed(c) /\ response[c] = << 201 >>

\* C9: the notification of a checkout is attempted only after its transaction
\* has committed.
C9_NotifyOnlyAfterCommit ==
  \A c \in Checkouts : notification[c] # "none" => Committed(c)

\* C10: a checkout without inline card details and without a payment-method
\* identifier creates no order, and every persisted order references an
\* existing payment-method row.
C10_NoSentinelPaymentMethod ==
  /\ \A c \in Checkouts :
       (req[c].complete /\ req[c].paymentMethod = "undefined") => ~OrderVisible(c)
  /\ \A o \in orders : \E m \in paymentMethods : m.paymentId = o.paymentMethodId

\* C11: a committed checkout with inline card details persisted exactly one
\* new payment-method row, owned by the user, and its order carries that new
\* identifier; a committed checkout that supplied an existing identifier
\* created no payment-method row and its order carries the supplied
\* identifier.
C11_PaymentMethodResolved ==
  \A c \in Checkouts :
    \A o \in orders :
      o.orderId = OrderIdOf(c) =>
        /\ req[c].paymentMethod = "object" =>
             /\ { m \in paymentMethods : m.paymentId = PaymentIdOf(c) }
                  = { [paymentId |-> PaymentIdOf(c), userId |-> req[c].userId] }
             /\ o.paymentMethodId = PaymentIdOf(c)
        /\ req[c].paymentMethod = "id" =>
             /\ \A m \in paymentMethods : m.paymentId # PaymentIdOf(c)
             /\ o.paymentMethodId = SuppliedPaymentId(req[c])

\* C12: a request missing products, userId or addressId is answered 400 in
\* its first step, which opens no transaction, writes no row, changes no
\* stock and attempts no notification; and nothing of it happens afterwards.
C12_RejectedState ==
  \A c \in Checkouts :
    (pc[c] # "idle" /\ ~req[c].complete) =>
      /\ pc[c] = "done"
      /\ response[c] = << 400 >>
      /\ txState[c] = "none"
      /\ notification[c] = "none"
      /\ txLocked[c] = {} /\ txPaymentMethods[c] = {}
      /\ txOrders[c] = {} /\ txOrderItems[c] = {}
      /\ ~OrderVisible(c) /\ VisibleItems(c) = {}
      /\ \A m \in paymentMethods : m.paymentId # PaymentIdOf(c)

C12_RejectedStep ==
  [][ \A c \in Checkouts :
        (pc[c] = "idle" /\ pc'[c] # "idle" /\ ~req'[c].complete) =>
          /\ pc'[c] = "done"
          /\ response'[c] = << 400 >>
          /\ UNCHANGED << storeVars, txVars, notification >> ]_vars

C12_MissingFieldsRejected == []C12_RejectedState /\ C12_RejectedStep

\* C12 witness: a request with a missing field has been answered 400 while
\* another checkout has committed an order.
C12_Witness ==
  \E c, d \in Checkouts :
    /\ ~req[c].complete /\ response[c] = << 400 >>
    /\ OrderVisible(d)

\* C15: a checkout with an empty products list is rejected, and every
\* persisted order has at least one order item.
C15_EmptyProductsRejected ==
  /\ \A c \in Checkouts :
       (pc[c] = "done" /\ req[c].complete /\ Len(req[c].products) = 0) =>
         ~Committed(c) /\ response[c] # << 201 >>
  /\ \A o \in orders : \E it \in orderItems : it.orderId = o.orderId

\* C16: the stock-check loop throws at the line it finds insufficient and
\* names that line's product, it moves past a line only when it found the
\* line sufficient (so the line reported is the first one found insufficient
\* in input order), and the checkout that threw is aborted: answered 500 with
\* the error, nothing of it persisted.
C16_ReportedLine ==
  \A c \in Checkouts :
    error[c].kind = "insufficient_stock" =>
      /\ error[c].productId = req[c].products[idx[c]].productId
      /\ pc[c] \in {"rollback", "done"}
      /\ ~Committed(c)
      /\ ~OrderVisible(c) /\ VisibleItems(c) = {}
      /\ \A m \in paymentMethods : m.paymentId # PaymentIdOf(c)
      /\ pc[c] = "done" => response[c] = << 500 >>

C16_LoopInInputOrder ==
  [][ \A c \in Checkouts :
        pc[c] = "checkStock" =>
          LET line == req[c].products[idx[c]]
              sufficient == VisibleStock(c, line.productId) >= line.quantity
          IN  /\ error'[c].kind = "insufficient_stock" =>
                   ~sufficient /\ idx'[c] = idx[c] /\ pc'[c] = "rollback"
              /\ (idx'[c] # idx[c] \/ pc'[c] = "updateStock") =>
                   /\ sufficient
                   /\ \/ pc'[c] = "checkStock" /\ idx'[c] = idx[c] + 1
                      \/ pc'[c] = "updateStock" /\ idx[c] = Len(req[c].products) ]_vars

C16_FirstInsufficientLineReported == []C16_ReportedLine /\ C16_LoopInInputOrder

\* C16 witness: both lines of a failed checkout name products that are out
\* of stock, and the error names the product of the first line.
C16_Witness ==
  \E c \in Checkouts :
    /\ pc[c] = "done" /\ error[c].kind = "insufficient_stock"
    /\ Len(req[c].products) = 2
    /\ req[c].products[1].productId # req[c].products[2].productId
    /\ \A i \in 1..2 :
         stockQuantity[req[c].products[i].productId] < req[c].products[i].quantity
    /\ idx[c] = 1
    /\ error[c].productId = req[c].products[1].productId

\* C17: once a checkout has answered 201 with its orderId, fetching that
\* order yields status pending and one item per requested line.
C17_ReadAfterWrite ==
  \A c \in Checkouts :
    (response[c] # << >> /\ response[c][1] = 201) =>
      LET got == GetOrder(OrderIdOf(c))
      IN  /\ got.code = 200
          /\ got.status = "pending"
          /\ Cardinality(got.items) = Len(req[c].products)

C13_UnknownReferencesRejected ==
  \A c \in Checkouts :
    (req[c].complete /\ (req[c].userId \notin Users \/ req[c].addressId \notin Addresses))
      => /\ ~Committed(c)
         /\ ~OrderVisible(c) /\ VisibleItems(c) = {}
         /\ \A m \in paymentMethods : m.paymentId # PaymentIdOf(c)
         /\ \A p \in Products : RequestedQuantity(c, p) > 0 => stockQuantity[p] = InitialStock

\* C14: every line of a checkout that succeeded has a positive quantity, and
\* no product's stock is ever above what it was before the checkouts.
C14_PositiveQuantities ==
  /\ \A c \in Checkouts :
       Committed(c) => \A i \in 1..Len(req[c].products) : req[c].products[i].quantity > 0
  /\ \A p \in Products : stockQuantity[p] <= InitialStock

\* C18: an order item, once committed, stays as it is: in every step of a
\* checkout, of updateProduct and of the status route, each order item of
\* the store is still the one row with its identifier, with the same
\* productId, quantity, unitPrice and subtotal.
C18_ItemSnapshotImmutable ==
  [][ \A it \in orderItems :
        { jt \in orderItems' : jt.orderItemId = it.orderItemId } = {it} ]_vars

\* C18 witness: an item bought at the price of a stale listing differs from
\* the product's new base price, its status has been set by the status
\* route, and a later checkout has committed.
C18_Witness ==
  \E it \in orderItems :
    /\ it.orderId = OrderIdOf(1)
    /\ it.productId \in productRows
    /\ it.unitPrice # basePrice[it.productId]
    /\ itemStatus[it.orderItemId] = "returned"
    /\ OrderVisible(2)

\* C19: every order's status is a member of the enumeration, and a status
\* update whose value is outside it is answered 400 without a write.
C19_StatusEnumerated ==
  /\ \A o \in orders : o.status \in validOrderStatuses
  /\ \A c \in Checkouts : \A o \in txOrders[c] : o.status \in validOrderStatuses
  /\ \A w \in adminTxStatus : w.status \in validOrderStatuses

C19_InvalidStatusRejected ==
  [][ ( /\ adminPc = "validateStatus"
        /\ adminPc' # adminPc
        /\ adminReq.status \notin validOrderStatuses \cup {""} )
      => /\ adminResponse' = 400
         /\ adminPc' = "idle"
         /\ orders' = orders
         /\ adminTxStatus' = {} ]_vars

C19_OrderStatusEnumeration == []C19_StatusEnumerated /\ C19_InvalidStatusRejected

\* C19 witness: an order that a status update moved to shipped, after which
\* a second update, with a status outside the enumeration, was answered 400.
C19_Witness ==
  /\ adminOps = 2
  /\ adminResponse = 400
  /\ \E o \in orders : o.status = "shipped"

\* C21: a checkout with a line whose productId names no product row is
\* aborted: it never commits, its response is the error response 500, and the
\* committed store is as before the request (no payment method, order or
\* order item of it, every stock quantity unchanged).
C21_NamesUnknownProduct(c) ==
  \E i \in 1..Len(req[c].products) : req[c].products[i].productId \notin productRows

C21_UnknownProductAborted ==
  \A c \in Checkouts :
    (pc[c] # "idle" /\ req[c].complete /\ C21_NamesUnknownProduct(c)) =>
      /\ ~Committed(c)
      /\ pc[c] \notin {"updateStock", "insertOrder", "insertItems", "send", "commit"}
      /\ stockQuantity = [p \in Products |-> InitialStock]
      /\ \A m \in paymentMethods : m.paymentId # PaymentIdOf(c)
      /\ ~OrderVisible(c)
      /\ VisibleItems(c) = {}
      /\ pc[c] = "done" => response[c] = << 500 >>

\* An inline card was inserted in the transaction, the first line passed the
\* stock check, the second line names no product: rolled back, answered 500.
C21_Witness ==
  /\ pc[1] = "done"
  /\ req[1].paymentMethod = "object"
  /\ req[1].userId \in Users
  /\ Len(req[1].products) = 2
  /\ req[1].products[1].productId \in productRows
  /\ req[1].products[2].productId \notin productRows
  /\ error[1].kind = "type_error"
  /\ txState[1] = "rolledback"
  /\ response[1] = << 500 >>

\* C22: a checkout that has ended has written exactly one response, and the
\* response is 201 only when its transaction has committed and its order is
\* in the store.
C22_CreatedOnlyWhenCommitted ==
  \A c \in Checkouts :
    pc[c] = "done" =>
      /\ Len(response[c]) = 1
      /\ response[c] = << 201 >> => (Committed(c) /\ OrderVisible(c))

\* C23: a checkout that runs alone and commits asked, for every product and
\* summed over all its lines of that product, for no more than the stock;
\* afterwards the stock is the previous stock less that sum, and not negative.
C23_DuplicateLinesSummed ==
  \A c \in Checkouts :
    (Committed(c) /\ \A d \in Checkouts \ {c} : pc[d] = "idle") =>
      \A p \in Products :
        /\ RequestedQuantity(c, p) <= InitialStock
        /\ stockQuantity[p] = InitialStock - RequestedQuantity(c, p)
        /\ stockQuantity[p] >= 0

\* C24: a status request whose itemStatuses holds a value outside the item
\* enumeration changes nothing: no step taken while it is in progress changes
\* the status of an order or of an item (the entries before the invalid one
\* included), and it is not answered 200.
C24_HasInvalidEntry ==
  /\ adminReq.route = "patchStatus"
  /\ \E i \in 1..Len(adminReq.itemStatuses) :
       adminReq.itemStatuses[i].status \notin validItemStatuses

C24_StatusUpdateAllOrNothing ==
  [][ C24_HasInvalidEntry =>
        /\ orders \subseteq orders'
        /\ itemStatus' = itemStatus
        /\ adminPc' = "idle" => adminResponse' # 200 ]_vars

\* The order's status and the status of its first item were updated inside
\* the transaction, then the second entry was found invalid.
C24_Witness ==
  /\ adminPc = "rollbackPatch"
  /\ C24_HasInvalidEntry
  /\ adminIdx = 2
  /\ adminTxStatus # {}
  /\ adminTxItems # {}
  /\ \E o \in orders : o.orderId = adminReq.orderId

\* C25: when no request is in progress, the stock of the adjusted product is
\* its initial stock plus the successful increases, less the successful
\* decreases, less the quantities of the committed checkouts.
C25_AdjustmentsKeepCheckoutDecrements ==
  (Quiescent /\ AdjustQuiescent) =>
    \A p \in AdjustedProducts :
      stockQuantity[p] =
        InitialStock
        + SuccessfulAdjustments("Stock quantity incremented successfully", NumAdjusters)
        - SuccessfulAdjustments("Stock quantity decremented successfully", NumAdjusters)
        - SumOver({ c \in Checkouts : Committed(c) }, p, NumCheckouts)

\* C26: a decrease that reads a positive stock sets the stock to one less than
\* it read; a decrease that reads stock 0 is answered 200 'Already zero' and
\* writes nothing; and while no checkout has committed, no sequence of
\* increases and decreases makes a stock negative.
C26_DecreaseStep ==
  \A a \in Adjusters :
    /\ (adjustPc[a] = "idle" /\ adjustReq'[a] # adjustReq[a]
          /\ adjustReq'[a].route = "decreaseStockById"
          /\ adjustReq'[a].id \in productRows) =>
         LET id == adjustReq'[a].id
         IN  /\ stockQuantity' = stockQuantity
             /\ stockQuantity[id] > 0 =>
                   /\ adjustPc'[a] = "update"
                   /\ newStockQuantity'[a] = stockQuantity[id] - 1
             /\ stockQuantity[id] = 0 =>
                   /\ adjustPc'[a] = "idle"
                   /\ adjustResponses'[a] =
                        Append(adjustResponses[a],
                               [route |-> "decreaseStockById", code |-> 200,
                                message |-> "Already zero"])
    /\ (adjustPc[a] = "update" /\ adjustPc'[a] = "idle"
          /\ adjustReq[a].route = "decreaseStockById") =>
         \/ stockQuantity' = stockQuantity
         \/ /\ stockQuantity'[adjustReq[a].id] = newStockQuantity[a]
            /\ newStockQuantity[a] >= 0

C26_StockNeverNegative ==
  (\A c \in Checkouts : ~Committed(c)) => \A p \in Products : stockQuantity[p] >= 0

C26_DecreaseStopsAtZero == []C26_StockNeverNegative /\ [][C26_DecreaseStep]_vars

\* A decrease took the stock from 1 to 0 and the next decrease was answered
\* 'Already zero'.
C26_Witness ==
  /\ \E a \in Adjusters :
       /\ Len(adjustResponses[a]) = 2
       /\ adjustResponses[a][1].message = "Stock quantity decremented successfully"
       /\ adjustResponses[a][2].message = "Already zero"
  /\ \A p \in AdjustedProducts : stockQuantity[p] = 0
  /\ \A c \in Checkouts : pc[c] = "idle"

\* C27: no step of an update-items request before its last changes the
\* cart's committed items; the last step either answers 200 and leaves the
\* cart with exactly the request's items, every one of which has productId,
\* quantity and unitPrice, or answers an error and leaves the items as they
\* were.
C27_ItemValid(item) == item.productId # 0 /\ item.quantity # 0 /\ item.unitPrice # 0

C27_ReplaceStep ==
  /\ cartPc' # "idle" => cartItems' = cartItems
  /\ (cartPc # "idle" /\ cartPc' = "idle") =>
       IF cartResponse' = 200
       THEN /\ ItemsOfCart(cartItems', cartReq.cartId) = RequestedCartItems
            /\ Cardinality(RequestedCartItems) = Len(cartReq.items)
            /\ \A i \in 1..Len(cartReq.items) : C27_ItemValid(cartReq.items[i])
       ELSE cartItems' = cartItems

C27_CartReplacedAtomically == [][C27_ReplaceStep]_vars

\* The cart holds items, and a request whose first item was inserted and
\* whose second item is invalid is about to be rolled back.
C27_Witness ==
  /\ cartPc = "rollbackCart"
  /\ ItemsOfCart(cartItems, cartReq.cartId) # {}
  /\ cartTxDeleted
  /\ cartTxInserted # {}
  /\ cartIdx = 2
  /\ ~C27_ItemValid(cartReq.items[2])

\* C28: no user has more than MAX_PAYMENT_METHODS_PER_USER payment methods
\* in the store.
C28_PaymentMethodLimit ==
  \A u \in Users : Cardinality(MethodsOf(u)) <= MAX_PAYMENT_METHODS_PER_USER

\* C29: when no payment-method request is in progress, no user has more than
\* one payment method whose isDefault is true.
C29_AtMostOneDefault ==
  (\A k \in ProfileClients : profilePc[k] = "idle") =>
    \A u \in Users :
      Cardinality({ m \in MethodsOf(u) : m.paymentId \in isDefault }) <= 1

\* C30: a refresh request is answered 200 only while the token it presented
\* is the one stored for the user, and then the stored token becomes the one
\* it issued; no refresh succeeds while the stored token is cleared by a
\* logout; and two refresh requests that presented the same token and were
\* issued another one have not both succeeded.
C30_RefreshStep ==
  \A k \in AuthClients :
    (authPc[k] = "storeToken" /\ authReq[k].route = "refresh"
       /\ authPc'[k] = "idle" /\ authResponse'[k].code = 200) =>
      /\ refreshToken[tokens[k].userId] = authReq[k].refreshToken
      /\ refreshToken[tokens[k].userId] # NoToken
      /\ refreshToken'[tokens[k].userId] = authResponse'[k].issued

C30_SingleUse ==
  \A j \in AuthClients : \A k \in AuthClients \ {j} :
    ~ /\ authResponse[j].route = "refresh" /\ authResponse[j].code = 200
      /\ authResponse[k].route = "refresh" /\ authResponse[k].code = 200
      /\ authResponse[j].presented = authResponse[k].presented
      /\ authResponse[j].issued # authResponse[j].presented
      /\ authResponse[k].issued # authResponse[k].presented

C30_RefreshTokenRotation == []C30_SingleUse /\ [][C30_RefreshStep]_vars
====
